---- MODULE Spec2Model ----
(***************************************************************************)
(* The balloon-history request handler of WeatherVoyager                   *)
(* (app/api/balloon-history/route.ts, carried in src/README.md from line   *)
(* 152): 24 hourly snapshot fetches joined by Promise.all, track building, *)
(* clustering of the latest points into grid cells, the Redis bulk lookup, *)
(* the rate-limited batch loop over the missing cells, the retrying batch  *)
(* fetcher, the Redis write-back and the fan-out to the balloons.          *)
(*                                                                         *)
(* One action is one run-to-completion segment of the handler: the code    *)
(* between two awaits, or one answer of the environment (a snapshot        *)
(* response, the MGET reply, a provider response, a timer).                *)
(*                                                                         *)
(* Units.  Times are in milliseconds, as in the source.  Coordinates are   *)
(* integers in hundredths of a degree (10.20 degrees is 1020), so that     *)
(* Math.round and toFixed(1) are real roundings.  Wind speeds are integers *)
(* in km/h on the provider side and in m/s after the conversion.           *)
(***************************************************************************)
EXTENDS Integers, Sequences, FiniteSets, TLC

VARIABLES
    pc,               \* position of the GET handler
    now,              \* Date.now()
    snapshots,        \* snapshotPromises: per hour, pending / stalled / settled
    balloons,         \* Record<string, BalloonTrack>, in insertion order
    builtAt,          \* Date.now() read by buildBalloonHistory
    cells,            \* Cell[] of clusterLatestPointsIntoCells, in insertion order
    redis,            \* REDIS_URL and the service: "unset", "up" or "down"
    ttlSeconds,       \* REDIS_WEATHER_TTL_SECONDS
    store,            \* the cache service: key -> raw string
    missingCells,     \* Cell[] still to fetch
    cellWeather,      \* Record<cellKey, BalloonWeather>
    i,                \* index of the batch loop
    requestsInWindow, \* limiter counter
    windowStart,      \* limiter window start
    waitMs,           \* the limiter's or the retry's pending sleep
    attempt,          \* fetchOpenMeteoBatch's attempt parameter
    delays,           \* the delays slept so far by the current batch call
    only429,          \* every answer the current batch call got so far was a 429
    retried,          \* what the current batch call retried on: "status", "exception"
    batchResult,      \* result of the batch call that just returned
    sentInWindow,     \* remote attempts sent since windowStart was last set
    response,         \* what GET returned
    mgetReply,        \* cached: the reply of redis.mget(keys), one entry per cell
    batches,          \* the batches handed to fetchOpenMeteoBatch so far
    gotItems,         \* items: those of the answer the batch call returned on
    expires,          \* the cache service: key -> the time its entry expires at
    pass,             \* the number of the request being served
    earlier,          \* what earlier requests left in the cache: key -> reading, time
    consumed,         \* limiter units this request has taken: what line 475 added
    previous,         \* what GET returned to the request before this one
    probe,            \* a pure function applied on its own: its arguments and its value
    requests          \* the requests served side by side, each with its own locals

vars == <<pc, now, snapshots, balloons, builtAt, cells, redis, ttlSeconds, store,
          missingCells, cellWeather, i, requestsInWindow, windowStart, waitMs,
          attempt, delays, only429, retried, batchResult, sentInWindow, response,
          mgetReply, batches, gotItems,
          expires, pass, earlier, consumed, previous, probe, requests>>

(***************************************************************************)
(* Bounds of the model (the source's values are 24, 50 and 500).           *)
(***************************************************************************)
HOURS_BACK == 2
WEATHER_BATCH_SIZE == 2
MAX_REQUESTS_PER_WINDOW == 1
\* latency of a slow provider response, in ms
SlowLatencyMs == 30000
\* the requests served one after the other in the specification of
\* successive requests
MaxPasses == 3
\* the bits of a number's significand where the arithmetic of roundToGrid
\* is followed rounding by rounding (the source's doubles have 53)
SignificandBits == 4

(***************************************************************************)
(* Program constants.                                                      *)
(***************************************************************************)
WINDOW_MS == 60000
maxRetries == 5
\* 1 degree, in hundredths of a degree
GRID_DEGREES == 100

Min(a, b) == IF a < b THEN a ELSE b

(***************************************************************************)
(* JSON values of a snapshot record.  A number is finite or Infinity       *)
(* (JSON.parse("1e999")); a string either reads as a number ("12") or not  *)
(* ("bad"); null.                                                          *)
(***************************************************************************)
Num(n) == [t |-> "number", v |-> n]
Infinity == [t |-> "infinity", v |-> 0]
NumStr(n) == [t |-> "numstr", v |-> n]
BadStr == [t |-> "string", v |-> 0]
JNull == [t |-> "null", v |-> 0]

Arr(elems) == [array |-> TRUE, elems |-> elems]
NonArray == [array |-> FALSE, elems |-> <<>>]

\* typeof x === "number" ? x : Number(x)
ToNumber(x) ==
    CASE x.t = "number"   -> [k |-> "finite", v |-> x.v]
      [] x.t = "infinity" -> [k |-> "infinity", v |-> 0]
      [] x.t = "numstr"   -> [k |-> "finite", v |-> x.v]
      [] x.t = "null"     -> [k |-> "finite", v |-> 0]
      [] OTHER            -> [k |-> "nan", v |-> 0]

\* `balloon-${idx}`
BalloonId(idx) == <<"balloon-", idx>>

(***************************************************************************)
(* fetchTreasureSnapshot: what one hour's fetch resolves to.  null is      *)
(* [ok |-> FALSE]; the function never rejects.                             *)
(***************************************************************************)
NullSnapshot == [ok |-> FALSE, data |-> <<>>]

fetchTreasureSnapshot(reply) ==
    CASE reply.kind = "neterr"             -> NullSnapshot
      [] reply.kind = "http" /\ ~reply.ok  -> NullSnapshot
      [] reply.kind = "http" /\ ~reply.isArray -> NullSnapshot
      [] OTHER                             -> [ok |-> TRUE, data |-> reply.data]

(***************************************************************************)
(* buildBalloonHistory                                                     *)
(***************************************************************************)
\* the body of snapshot.forEach: <<>> when the entry is skipped, else <<point>>
EntryPoint(entry, idx, hour, nowMs) ==
    IF ~entry.array \/ Len(entry.elems) < 2 THEN <<>>
    ELSE LET lat == ToNumber(entry.elems[1])
             lon == ToNumber(entry.elems[2])
             altNull == Len(entry.elems) < 3 \/ entry.elems[3].t = "null"
             altNum == IF altNull THEN [k |-> "null", v |-> 0]
                       ELSE ToNumber(entry.elems[3])
         IN IF lat.k # "finite" \/ lon.k # "finite" THEN <<>>
            ELSE << [balloonId |-> BalloonId(idx),
                     timestamp |-> nowMs - hour * 60 * 60 * 1000,
                     lat |-> lat.v,
                     lon |-> lon.v,
                     alt |-> IF altNum.k = "finite" THEN <<altNum.v>> ELSE <<>>,
                     snapshotIndex |-> hour] >>

HasTrack(tracks, id) == \E n \in 1..Len(tracks) : tracks[n].id = id

\* balloons[balloonId] created on first sight, then points.push(point)
PushPoint(tracks, p) ==
    IF HasTrack(tracks, p.balloonId)
    THEN [n \in 1..Len(tracks) |->
            IF tracks[n].id = p.balloonId
            THEN [tracks[n] EXCEPT !.points = Append(@, p)]
            ELSE tracks[n]]
    ELSE Append(tracks, [id |-> p.balloonId, points |-> <<p>>])

\* a forEach that creates the track of an index before it looks at the record
RECURSIVE AddSnapshotEager(_, _, _, _, _)
AddSnapshotEager(tracks, snapshot, n, hour, nowMs) ==
    IF n > Len(snapshot) THEN tracks
    ELSE LET p == EntryPoint(snapshot[n], n - 1, hour, nowMs)
             created == IF HasTrack(tracks, BalloonId(n - 1)) THEN tracks
                        ELSE Append(tracks, [id |-> BalloonId(n - 1), points |-> <<>>])
         IN AddSnapshotEager(IF p = <<>> THEN created ELSE PushPoint(created, p[1]),
                             snapshot, n + 1, hour, nowMs)

\* a forEach that numbers the balloons by the records kept so far instead of
\* by the array index
RECURSIVE AddSnapshotRenumbered(_, _, _, _, _)
AddSnapshotRenumbered(tracks, snapshot, n, hour, nowMs) ==
    IF n > Len(snapshot) THEN tracks
    ELSE LET kept == Cardinality({m \in 1..(n - 1) :
                         EntryPoint(snapshot[m], 0, hour, nowMs) # <<>>})
             p == EntryPoint(snapshot[n], kept, hour, nowMs)
         IN AddSnapshotRenumbered(IF p = <<>> THEN tracks ELSE PushPoint(tracks, p[1]),
                                  snapshot, n + 1, hour, nowMs)

RECURSIVE AddSnapshot(_, _, _, _, _)
AddSnapshot(tracks, snapshot, n, hour, nowMs) ==
    IF n > Len(snapshot) THEN tracks
    ELSE LET p == EntryPoint(snapshot[n], n - 1, hour, nowMs)
         IN AddSnapshot(IF p = <<>> THEN tracks ELSE PushPoint(tracks, p[1]),
                        snapshot, n + 1, hour, nowMs)

RECURSIVE FoldSnapshots(_, _, _, _)
FoldSnapshots(tracks, rawSnapshots, h, nowMs) ==
    IF h > Len(rawSnapshots) THEN tracks
    ELSE FoldSnapshots(IF ~rawSnapshots[h].ok THEN tracks
                       ELSE AddSnapshot(tracks, rawSnapshots[h].data, 1, h - 1, nowMs),
                       rawSnapshots, h + 1, nowMs)

\* points.sort((a, b) => a.snapshotIndex - b.snapshotIndex): a stable sort
RECURSIVE InsertPoint(_, _)
InsertPoint(sorted, p) ==
    IF sorted = <<>> THEN <<p>>
    ELSE IF sorted[Len(sorted)].snapshotIndex <= p.snapshotIndex
         THEN Append(sorted, p)
         ELSE Append(InsertPoint(SubSeq(sorted, 1, Len(sorted) - 1), p),
                     sorted[Len(sorted)])

\* the comparator written b.snapshotIndex - a.snapshotIndex
RECURSIVE InsertPointDescending(_, _)
InsertPointDescending(sorted, p) ==
    IF sorted = <<>> THEN <<p>>
    ELSE IF sorted[Len(sorted)].snapshotIndex >= p.snapshotIndex
         THEN Append(sorted, p)
         ELSE Append(InsertPointDescending(SubSeq(sorted, 1, Len(sorted) - 1), p),
                     sorted[Len(sorted)])

RECURSIVE SortPointsDescending(_)
SortPointsDescending(points) ==
    IF points = <<>> THEN <<>>
    ELSE InsertPointDescending(SortPointsDescending(SubSeq(points, 1, Len(points) - 1)),
                               points[Len(points)])

RECURSIVE SortPoints(_)
SortPoints(points) ==
    IF points = <<>> THEN <<>>
    ELSE InsertPoint(SortPoints(SubSeq(points, 1, Len(points) - 1)),
                     points[Len(points)])

buildBalloonHistory(rawSnapshots, nowMs) ==
    LET tracks == FoldSnapshots(<<>>, rawSnapshots, 1, nowMs)
    IN [n \in 1..Len(tracks) |->
           [tracks[n] EXCEPT !.points = SortPoints(@)]]

\* a join that gives up at the first unavailable hour: the hours before it
FilterUntilNull(rawSnapshots) ==
    LET failed == {h \in 1..Len(rawSnapshots) : ~rawSnapshots[h].ok}
        upTo == IF failed = {} THEN Len(rawSnapshots)
                ELSE (CHOOSE h \in failed : \A g \in failed : h <= g) - 1
    IN SubSeq(rawSnapshots, 1, upTo)

\* rawSnapshots.filter((s) => !!s)
FilterSnapshots(rawSnapshots) == SelectSeq(rawSnapshots, LAMBDA s : s.ok)

(***************************************************************************)
(* Grid cells                                                              *)
(***************************************************************************)
\* Math.floor in place of Math.round
floorToGrid(value, gridDeg) == (value \div gridDeg) * gridDeg

\* Math.round(value / gridDeg) * gridDeg; Math.round is floor(x + 1/2)
roundToGrid(value, gridDeg) == ((2 * value + gridDeg) \div (2 * gridDeg)) * gridDeg

(***************************************************************************)
(* roundToGrid on floating-point numbers.  A number is held as a whole     *)
(* count of units of 1 / Scale; a float is a number whose significand fits *)
(* SignificandBits bits.  A division and a multiplication return the float *)
(* nearest to the exact result, ties to the even significand; Math.round   *)
(* is exact.                                                               *)
(***************************************************************************)
RECURSIVE Pow2(_)
Pow2(k) == IF k = 0 THEN 1 ELSE 2 * Pow2(k - 1)

\* the grid sizes tried, and the unit fine enough for every quotient of a
\* whole number by one of them
GridSizes == 1..7
Scale == Pow2(SignificandBits + 2)

Abs(v) == IF v < 0 THEN 0 - v ELSE v

\* the spacing of the floats around num / den units
Ulp(num, den) ==
    CHOOSE u \in {Pow2(k) : k \in 0..(2 * SignificandBits + 6)} :
        /\ u = 1 \/ Pow2(SignificandBits - 1) * u * den <= num
        /\ num < Pow2(SignificandBits) * u * den

\* the float nearest to num / den units (den > 0), ties to even
Nearest(num, den) ==
    LET a == Abs(num)
        u == Ulp(a, den)
        below == a \div (u * den)
        rest == a - below * u * den
        m == IF 2 * rest > u * den \/ (2 * rest = u * den /\ below % 2 = 1)
             THEN below + 1 ELSE below
    IN IF num < 0 THEN 0 - m * u ELSE m * u

IsFloat(v) == Nearest(v, 1) = v

\* value / gridDeg
Divide(value, gridDeg) == Nearest(value * Scale, gridDeg)
\* a rounding that always goes up to the next whole number
MathRoundUp(q) == (q \div Scale + 1) * Scale
\* Math.round(q): floor(q + 1/2)
MathRound(q) == ((2 * q + Scale) \div (2 * Scale)) * Scale
\* n * gridDeg
Times(n, gridDeg) == Nearest(n * gridDeg, Scale)

\* Math.round(value / gridDeg) * gridDeg, every operation rounded as above
roundToGridFloat(value, gridDeg) == Times(MathRound(Divide(value, gridDeg)), gridDeg)

\* Number.prototype.toFixed(1) of a value in hundredths: the sign and the
\* tenths, ties away from zero; -0 prints without a sign
toFixed1(value) ==
    IF value < 0 THEN [neg |-> TRUE, tenths |-> (5 - value) \div 10]
    ELSE [neg |-> FALSE, tenths |-> (value + 5) \div 10]

\* `${latCenter.toFixed(1)},${lonCenter.toFixed(1)}`
CellKey(latCenter, lonCenter) == <<toFixed1(latCenter), ",", toFixed1(lonCenter)>>

HasCell(cs, key) == \E n \in 1..Len(cs) : cs[n].key = key

AddToCell(cs, track) ==
    LET latest == track.points[1]
        latCenter == roundToGrid(latest.lat, GRID_DEGREES)
        lonCenter == roundToGrid(latest.lon, GRID_DEGREES)
        key == CellKey(latCenter, lonCenter)
    IN IF HasCell(cs, key)
       THEN [n \in 1..Len(cs) |->
               IF cs[n].key = key
               THEN [cs[n] EXCEPT !.balloonIds = Append(@, track.id)]
               ELSE cs[n]]
       ELSE Append(cs, [key |-> key, lat |-> latCenter, lon |-> lonCenter,
                        balloonIds |-> <<track.id>>])

\* a loop that clusters only the tracks seen in the newest snapshot
RECURSIVE ClusterFromNewestOnly(_, _, _)
ClusterFromNewestOnly(cs, tracks, n) ==
    IF n > Len(tracks) THEN cs
    ELSE ClusterFromNewestOnly(IF Len(tracks[n].points) = 0
                                  \/ tracks[n].points[1].snapshotIndex # 0
                               THEN cs
                               ELSE AddToCell(cs, tracks[n]),
                               tracks, n + 1)

RECURSIVE ClusterFrom(_, _, _)
ClusterFrom(cs, tracks, n) ==
    IF n > Len(tracks) THEN cs
    ELSE ClusterFrom(IF Len(tracks[n].points) = 0 THEN cs
                     ELSE AddToCell(cs, tracks[n]),
                     tracks, n + 1)

clusterLatestPointsIntoCells(tracks) == ClusterFrom(<<>>, tracks, 1)

\* a key made of the prefix and the latitude alone
weatherCacheKeyLatOnly(cell) == <<"wx:", toFixed1(cell.lat)>>

\* `wx:${cell.lat.toFixed(1)}:${cell.lon.toFixed(1)}`
weatherCacheKey(cell) == <<"wx:", toFixed1(cell.lat), ":", toFixed1(cell.lon)>>

(***************************************************************************)
(* fetchOpenMeteoBatch: one attempt                                        *)
(***************************************************************************)
EmptyMap == [k \in {} |-> 0]

\* typeof x === "number" ? x : null
NumberOrNull(x) == IF x.t = "number" THEN <<x.v>> ELSE <<>>

\* a wind speed passed on as the provider gave it
KmhUnconverted(kmh) == kmh

\* cw.windspeed / 3.6, km/h -> m/s
KmhToMs(kmh) == (kmh * 10) \div 36

\* the BalloonWeather built from one current_weather object
ToBalloonWeather(cw) ==
    [temperatureC |-> NumberOrNull(cw.temperature),
     windSpeedMs |-> IF cw.windspeed.t = "number"
                     THEN <<KmhToMs(cw.windspeed.v)>> ELSE <<>>,
     windDirectionDeg |-> NumberOrNull(cw.winddirection)]

\* a forEach that reads items[0] for every cell
ParseItemsFirstForAll(batch, items) ==
    [key \in {batch[n].key : n \in {m \in 1..Len(batch) : Len(items) >= 1}} |->
        ToBalloonWeather(items[1].current_weather)]

\* cells.forEach((cell, idx) => ...): result[cell.key] = wx for every idx that
\* has an item
ParseItems(batch, items) ==
    LET have == {n \in 1..Len(batch) : n <= Len(items)}
        last(key) == CHOOSE n \in have :
                        /\ batch[n].key = key
                        /\ \A m \in have : batch[m].key = key => m <= n
    IN [key \in {batch[n].key : n \in have} |->
           ToBalloonWeather(items[last(key)].current_weather)]

\* the status test written with <=: one retry more
StatusRetryInclusive(att) == att <= maxRetries
\* attempt < maxRetries, on a 429 or 5xx status
StatusRetryAllowed(att) == att < maxRetries

\* the catch block's test written with <=: a budget of its own, one larger
ErrorRetryInclusive(att) == att <= maxRetries
\* attempt < maxRetries, in the catch block
ErrorRetryAllowed(att) == att < maxRetries

\* 500 * (attempt + 1)
RetryDelay(att) == 500 * (att + 1)

\* One attempt of fetchOpenMeteoBatch(batch, att) answered by reply: retry
\* after a delay, or return a result.  Nothing escapes the try/catch.
BatchStep(batch, reply, att) ==
    LET retry == [act |-> "retry", delay |-> RetryDelay(att), result |-> EmptyMap]
        giveUp == [act |-> "return", delay |-> 0, result |-> EmptyMap]
        onError == IF ErrorRetryAllowed(att) THEN retry ELSE giveUp
    IN CASE reply.kind = "neterr" -> onError
         [] reply.status = 429 \/ reply.status >= 500 ->
               IF StatusRetryAllowed(att) THEN retry ELSE giveUp
         [] reply.status < 200 \/ reply.status > 299 -> giveUp
         [] reply.body = "badjson" -> onError
         [] OTHER -> [act |-> "return", delay |-> 0,
                      result |-> ParseItems(batch, reply.items)]

\* the kind of answer, as the retry logic sees it
OutcomeKind(reply) ==
    CASE reply.kind = "neterr" -> "exception"
      [] reply.status = 429 -> "429"
      [] reply.status >= 500 -> "5xx"
      [] reply.status < 200 \/ reply.status > 299 -> "4xx"
      [] reply.body = "badjson" -> "exception"
      [] OTHER -> "ok"

\* which of the two retry branches an answer takes: the status test of the
\* try block or the catch block
RetryCause(reply) == IF OutcomeKind(reply) = "exception" THEN "exception" ELSE "status"

(***************************************************************************)
(* The weather provider: what it holds for a cell, and the replies it can  *)
(* give to a batch request.                                                *)
(***************************************************************************)
ProviderItem(cell) ==
    [current_weather |->
        [temperature |-> Num(cell.lat \div 100),
         windspeed |-> IF cell.lon = 0 THEN JNull ELSE Num(36),
         winddirection |-> Num(90)]]

HttpReply(status, body, items) ==
    [kind |-> "http", status |-> status, body |-> body, items |-> items]

ProviderReplies(batch) ==
    LET all == [n \in 1..Len(batch) |-> ProviderItem(batch[n])]
    IN { [kind |-> "neterr", status |-> 0, body |-> "", items |-> <<>>],
         HttpReply(429, "", <<>>),
         HttpReply(503, "", <<>>),
         HttpReply(404, "", <<>>),
         HttpReply(200, "badjson", <<>>),
         HttpReply(200, "array", all),
         HttpReply(200, "array", SubSeq(all, 1, Len(all) - 1)),
         \* a single object: items = [data]
         HttpReply(200, "object", <<all[1]>>) }

\* A response is immediate or slow.  Slowness is drawn only while the
\* limiter's window is open: once WINDOW_MS has elapsed the limiter reads
\* the same whatever time is added.
Latencies(elapsed) == IF elapsed < WINDOW_MS THEN {0, SlowLatencyMs} ELSE {0}

(***************************************************************************)
(* Redis                                                                   *)
(***************************************************************************)
\* JSON.stringify(wx)
Stringify(wx) == [json |-> TRUE, value |-> wx]
\* a cached string JSON.parse rejects
Garbage == [json |-> FALSE, value |-> EmptyMap]

\* The entries the service still holds at time t: a key SET with EX expires
\* once its time to live has passed; a key without one stays.
Live(st, exp, t) ==
    [k \in {q \in DOMAIN st : q \in DOMAIN exp => t <= exp[q]} |-> st[k]]

\* redis.mget(keys) on a reachable service: the value or null, per key
Mget(st, keys) ==
    [n \in 1..Len(keys) |-> IF keys[n] \in DOMAIN st THEN <<st[keys[n]]>> ELSE <<>>]

\* MGET takes at least one key: with none the server answers with an error
\* reply, and an unreachable service fails the command; either way the
\* awaited promise rejects
MgetRejected(status, keys) == status = "down" \/ Len(keys) = 0

\* a catch block that only warns: a cached entry that does not parse is not
\* pushed to missingCells
RECURSIVE MissesFromAbsentOnly(_, _, _)
MissesFromAbsentOnly(cs, cached, n) ==
    IF n > Len(cs) THEN <<>>
    ELSE (IF cached[n] = <<>> THEN <<cs[n]>> ELSE <<>>)
         \o MissesFromAbsentOnly(cs, cached, n + 1)

\* lines 431-446: the cells whose cached entry is absent or does not parse
RECURSIVE MissesFrom(_, _, _)
MissesFrom(cs, cached, n) ==
    IF n > Len(cs) THEN <<>>
    ELSE (IF cached[n] = <<>> \/ ~cached[n][1].json THEN <<cs[n]>> ELSE <<>>)
         \o MissesFrom(cs, cached, n + 1)

\* a cache pass that converts the cached wind speed once more
CacheHitsReconverted(cs, cached) ==
    LET hit == {n \in 1..Len(cs) : cached[n] # <<>> /\ cached[n][1].json}
        last(key) == CHOOSE n \in hit :
                        /\ cs[n].key = key
                        /\ \A m \in hit : cs[m].key = key => m <= n
        again(wx) == [wx EXCEPT !.windSpeedMs =
                         IF @ = <<>> THEN <<>> ELSE <<KmhToMs(@[1])>>]
    IN [key \in {cs[n].key : n \in hit} |-> again(cached[last(key)][1].value)]

\* lines 433-446: cellWeather after the cache pass
CacheHits(cs, cached) ==
    LET hit == {n \in 1..Len(cs) : cached[n] # <<>> /\ cached[n][1].json}
        last(key) == CHOOSE n \in hit :
                        /\ cs[n].key = key
                        /\ \A m \in hit : cs[m].key = key => m <= n
    IN [key \in {cs[n].key : n \in hit} |-> cached[last(key)][1].value]

\* Object.entries(batchResult).forEach(([cellKey, wx]) => cellWeather[cellKey] = wx)
Merge(cw, result) ==
    [key \in DOMAIN cw \cup DOMAIN result |->
        IF key \in DOMAIN result THEN result[key] ELSE cw[key]]

\* missingCells.slice(i, i + WEATHER_BATCH_SIZE)
Slice(missing, idx) ==
    SubSeq(missing, idx + 1, Min(idx + WEATHER_BATCH_SIZE, Len(missing)))

\* the balloon ids of a cell
IdsOf(cell) == {cell.balloonIds[n] : n \in 1..Len(cell.balloonIds)}

\* a write-back that SETs every cell of the batch, a cell without a reading
\* to a reading of nulls
WriteBackEveryCell(st, batch, result) ==
    LET keyOf(n) == weatherCacheKey(batch[n])
        last(k) == CHOOSE n \in 1..Len(batch) :
                      keyOf(n) = k /\ \A m \in 1..Len(batch) : keyOf(m) = k => m <= n
    IN [k \in DOMAIN st \cup {keyOf(n) : n \in 1..Len(batch)} |->
           IF k \in {keyOf(n) : n \in 1..Len(batch)}
           THEN IF batch[last(k)].key \in DOMAIN result
                THEN Stringify(result[batch[last(k)].key])
                ELSE Stringify([temperatureC |-> <<>>, windSpeedMs |-> <<>>,
                                windDirectionDeg |-> <<>>])
           ELSE st[k]]

\* a write-back that SETs one entry per balloon of the cell
WriteBackPerBalloon(st, batch, result) ==
    LET wrote == {n \in 1..Len(batch) : batch[n].key \in DOMAIN result}
        added == {<<weatherCacheKey(batch[n]), id>> :
                     n \in wrote, id \in UNION {IdsOf(batch[m]) : m \in wrote}}
        kept == {e \in added : \E n \in wrote :
                    e[1] = weatherCacheKey(batch[n]) /\ e[2] \in IdsOf(batch[n])}
    IN [k \in DOMAIN st \cup kept |->
           IF k \in kept
           THEN Stringify(result[batch[CHOOSE n \in wrote :
                                          k[1] = weatherCacheKey(batch[n])].key])
           ELSE st[k]]

\* lines 483-494: the pipelined SETs of one batch, applied to the store
WriteBack(st, batch, result) ==
    LET wrote == {n \in 1..Len(batch) : batch[n].key \in DOMAIN result}
        keyOf(n) == weatherCacheKey(batch[n])
        last(k) == CHOOSE n \in wrote :
                      keyOf(n) = k /\ \A m \in wrote : keyOf(m) = k => m <= n
    IN [k \in DOMAIN st \cup {keyOf(n) : n \in wrote} |->
           IF k \in {keyOf(n) : n \in wrote}
           THEN Stringify(result[batch[last(k)].key])
           ELSE st[k]]

\* SET with "PX" in place of "EX": ttlSeconds taken as milliseconds
WriteBackExpiryMillis(exp, batch, result, ttl, t) ==
    LET wrote == {weatherCacheKey(batch[n]) :
                     n \in {m \in 1..Len(batch) : batch[m].key \in DOMAIN result}}
    IN [k \in DOMAIN exp \cup wrote |->
           IF k \in wrote THEN t + ttl ELSE exp[k]]

\* lines 487-492: "EX", ttlSeconds on every SET of the batch, sent at time t
WriteBackExpiry(exp, batch, result, ttl, t) ==
    LET wrote == {weatherCacheKey(batch[n]) :
                     n \in {m \in 1..Len(batch) : batch[m].key \in DOMAIN result}}
    IN [k \in DOMAIN exp \cup wrote |->
           IF k \in wrote THEN t + ttl * 1000 ELSE exp[k]]

(***************************************************************************)
(* Fan-out, lines 498-505                                                  *)
(***************************************************************************)
\* a fan-out that stops after the first balloon of each cell
FanOutFirstOnly(cs, cw) ==
    LET resolved == {n \in 1..Len(cs) : cs[n].key \in DOMAIN cw}
    IN [id \in {cs[n].balloonIds[1] : n \in resolved} |->
           cw[cs[CHOOSE n \in resolved : cs[n].balloonIds[1] = id].key]]

\* a fan-out that gives the balloons of an unresolved cell a reading of nulls
FanOutWithNulls(cs, cw) ==
    LET resolved == {n \in 1..Len(cs) : cs[n].key \in DOMAIN cw}
        cellOf(id) == CHOOSE n \in 1..Len(cs) :
                         /\ id \in IdsOf(cs[n])
                         /\ \A m \in 1..Len(cs) : id \in IdsOf(cs[m]) => m <= n
    IN [id \in UNION {IdsOf(cs[n]) : n \in 1..Len(cs)} |->
           IF cellOf(id) \in resolved THEN cw[cs[cellOf(id)].key]
           ELSE [temperatureC |-> <<>>, windSpeedMs |-> <<>>, windDirectionDeg |-> <<>>]]

FanOut(cs, cw) ==
    LET resolved == {n \in 1..Len(cs) : cs[n].key \in DOMAIN cw}
        last(id) == CHOOSE n \in resolved :
                       /\ id \in IdsOf(cs[n])
                       /\ \A m \in resolved : id \in IdsOf(cs[m]) => m <= n
    IN [id \in UNION {IdsOf(cs[n]) : n \in resolved} |-> cw[cs[last(id)].key]]

(***************************************************************************)
(* Inputs: the snapshot records and bodies the upstream source can serve,  *)
(* and the cache configurations a request can start under.                 *)
(***************************************************************************)
\* [10.2, 20.5, 5.0] and [10.4, 20.7]: two balloons of the cell 10, 21
RecA == Arr(<<Num(1020), Num(2050), Num(5)>>)
RecB == Arr(<<Num(1040), Num(2070)>>)
\* [-0.3, 179.6, "7"]: cell 0, 180
RecC == Arr(<<Num(-30), Num(17960), NumStr(7)>>)
\* ["12", null, "bad"]: coerced to 12, 0; cell 12, 0
RecD == Arr(<<NumStr(1200), JNull, BadStr>>)
\* [91, 20, 5], ["bad"], ["bad", 20], [1e999, 20]
RecRange == Arr(<<Num(9100), Num(2000), Num(5)>>)
RecShort == Arr(<<BadStr>>)
RecNaN == Arr(<<BadStr, Num(2000)>>)
RecInf == Arr(<<Infinity, Num(2000)>>)

SnapshotPool ==
    { <<RecA, RecRange, RecShort>>,
      <<RecB, RecA, NonArray>>,
      <<RecNaN, RecC, RecD>>,
      <<RecInf>> }

SnapshotReplies ==
    { [kind |-> "neterr", ok |-> FALSE, isArray |-> FALSE, data |-> <<>>],
      [kind |-> "http", ok |-> FALSE, isArray |-> FALSE, data |-> <<>>],
      [kind |-> "http", ok |-> TRUE, isArray |-> FALSE, data |-> <<>>] }
    \cup { [kind |-> "http", ok |-> TRUE, isArray |-> TRUE, data |-> d] :
             d \in SnapshotPool }

Hours == 1..HOURS_BACK

\* a reading cached by an earlier request, and the key of the cell 10, 21
CachedReading == [temperatureC |-> <<4>>, windSpeedMs |-> <<3>>, windDirectionDeg |-> <<>>]
KeyA == weatherCacheKey([lat |-> 1000, lon |-> 2100])

Configs ==
    { [redis |-> "unset", ttl |-> 900, store |-> EmptyMap],
      [redis |-> "down", ttl |-> 900, store |-> EmptyMap],
      [redis |-> "up", ttl |-> 900, store |-> EmptyMap],
      [redis |-> "up", ttl |-> 0, store |-> EmptyMap],
      [redis |-> "up", ttl |-> 900, store |-> [k \in {KeyA} |-> Stringify(CachedReading)]],
      [redis |-> "up", ttl |-> 900, store |-> [k \in {KeyA} |-> Garbage]] }

(***************************************************************************)
(* The responses of GET                                                    *)
(***************************************************************************)
NoResponse == [status |-> 0, error |-> "", balloons |-> <<>>, latestWeather |-> EmptyMap]
Success(bl, lw) == [status |-> 200, error |-> "", balloons |-> bl, latestWeather |-> lw]
Failure == [status |-> 500, error |-> "Failed to build balloon history",
            balloons |-> <<>>, latestWeather |-> EmptyMap]

\* no pure function is applied on its own while GET runs
NoProbe == [fn |-> "none", args |-> <<>>, value |-> <<>>]

(***************************************************************************)
(* The limiter, lines 454-470 and 475                                      *)
(***************************************************************************)
\* a counter that charges a batch call one unit per cell
ConsumePerCell(reqs, batch) == reqs + Len(batch)
\* requestsInWindow += 1, after the call for batch returned
Consume(reqs, batch) == reqs + 1

\* the limiter test written with >: one request too many per window
LimiterMustWaitStrict(reqs, elapsed) ==
    reqs > MAX_REQUESTS_PER_WINDOW /\ elapsed < WINDOW_MS
\* requestsInWindow >= MAX_REQUESTS_PER_WINDOW && elapsed < WINDOW_MS
LimiterMustWait(reqs, elapsed) ==
    reqs >= MAX_REQUESTS_PER_WINDOW /\ elapsed < WINDOW_MS

\* a loop that hands every remaining batch to fetchOpenMeteoBatch at once
RECURSIVE HandedAllRemaining(_, _, _)
HandedAllRemaining(bs, missing, idx) ==
    IF idx >= Len(missing) THEN bs
    ELSE HandedAllRemaining(Append(bs, Slice(missing, idx)), missing,
                            idx + WEATHER_BATCH_SIZE)

\* lines 472-474: the batch at idx is sliced off and handed to
\* fetchOpenMeteoBatch, which is awaited
Handed(bs, missing, idx) == Append(bs, Slice(missing, idx))

\* The for statement's test and the head of its body, up to the await of the
\* limiter's sleep or of the batch call, run at time t; after the last batch,
\* the fan-out and GET's response.
LoopHead(bl, cs, missing, idx, cw, reqs, wstart, sent, t) ==
    /\ missingCells' = missing
    /\ i' = idx
    /\ cellWeather' = cw
    /\ attempt' = 0
    /\ delays' = <<>>
    /\ only429' = TRUE
    /\ retried' = {}
    /\ batchResult' = EmptyMap
    /\ gotItems' = <<>>
    /\ batches' = IF idx < Len(missing) /\ ~LimiterMustWait(reqs, t - wstart)
                  THEN Handed(batches, missing, idx)
                  ELSE batches
    /\ IF idx >= Len(missing)
       THEN /\ pc' = "done"
            /\ response' = Success(bl, FanOut(cs, cw))
            /\ requestsInWindow' = reqs
            /\ windowStart' = wstart
            /\ sentInWindow' = sent
            /\ waitMs' = 0
       ELSE /\ response' = response
            /\ IF LimiterMustWait(reqs, t - wstart)
               THEN /\ pc' = "limiterSleep"
                    /\ waitMs' = WINDOW_MS - (t - wstart)
                    /\ requestsInWindow' = reqs
                    /\ windowStart' = wstart
                    /\ sentInWindow' = sent
               ELSE /\ pc' = "fetching"
                    /\ waitMs' = 0
                    /\ IF t - wstart >= WINDOW_MS
                       THEN /\ windowStart' = t
                            /\ requestsInWindow' = 0
                            /\ sentInWindow' = 1
                       ELSE /\ windowStart' = wstart
                            /\ requestsInWindow' = reqs
                            /\ sentInWindow' = sent + 1

(***************************************************************************)
(* Initial state: GET has issued the HOURS_BACK snapshot fetches.          *)
(***************************************************************************)
Started ==
    /\ pc = "snapshots"
    /\ now = 0
    /\ snapshots = [h \in Hours |-> [state |-> "pending", value |-> NullSnapshot]]
    /\ balloons = <<>>
    /\ builtAt = 0
    /\ cells = <<>>
    /\ \E c \in Configs :
          /\ redis = c.redis
          /\ ttlSeconds = c.ttl
          /\ store = c.store
    /\ missingCells = <<>>
    /\ cellWeather = EmptyMap
    /\ i = 0
    /\ requestsInWindow = 0
    /\ windowStart = 0
    /\ waitMs = 0
    /\ attempt = 0
    /\ delays = <<>>
    /\ only429 = TRUE
    /\ retried = {}
    /\ batchResult = EmptyMap
    /\ sentInWindow = 0
    /\ response = NoResponse
    /\ mgetReply = <<>>
    /\ batches = <<>>
    /\ gotItems = <<>>
    /\ expires = EmptyMap
    /\ pass = 1
    /\ earlier = EmptyMap
    /\ consumed = 0
    /\ previous = NoResponse

Init == Started /\ probe = NoProbe /\ requests = <<>>

(***************************************************************************)
(* Snapshot fetches                                                        *)
(***************************************************************************)
\* one fetchTreasureSnapshot(h) settles
SnapshotSettles(h) ==
    /\ pc = "snapshots"
    /\ snapshots[h].state = "pending"
    /\ \E reply \in SnapshotReplies :
          snapshots' = [snapshots EXCEPT
                           ![h] = [state |-> "settled",
                                   value |-> fetchTreasureSnapshot(reply)]]
    /\ UNCHANGED <<pc, now, balloons, builtAt, cells, redis, ttlSeconds, store,
                   missingCells, cellWeather, i, requestsInWindow, windowStart,
                   waitMs, attempt, delays, only429, retried, batchResult,
                   sentInWindow, response, mgetReply, batches, gotItems,
                   expires, pass, earlier,
                   consumed, previous, probe, requests>>

\* the upstream never answers hour h: fetch is called without a signal or a
\* timeout, so the promise stays pending
SnapshotStalls(h) ==
    /\ pc = "snapshots"
    /\ snapshots[h].state = "pending"
    /\ snapshots' = [snapshots EXCEPT ![h].state = "stalled"]
    /\ UNCHANGED <<pc, now, balloons, builtAt, cells, redis, ttlSeconds, store,
                   missingCells, cellWeather, i, requestsInWindow, windowStart,
                   waitMs, attempt, delays, only429, retried, batchResult,
                   sentInWindow, response, mgetReply, batches, gotItems,
                   expires, pass, earlier,
                   consumed, previous, probe, requests>>

\* Promise.all resolves; GET filters and builds the tracks, and
\* fetchWeatherForAllBalloons runs up to its first await
JoinSnapshots ==
    /\ pc = "snapshots"
    /\ \A h \in Hours : snapshots[h].state = "settled"
    /\ LET rawSnapshots == [h \in Hours |-> snapshots[h].value]
           bl == buildBalloonHistory(FilterSnapshots(rawSnapshots), now)
           cs == clusterLatestPointsIntoCells(bl)
       IN /\ balloons' = bl
          /\ builtAt' = now
          /\ cells' = cs
          /\ IF redis = "unset"
             THEN LoopHead(bl, cs, cs, 0, EmptyMap, 0, now, 0, now)
             ELSE /\ pc' = "mget"
                  /\ UNCHANGED <<missingCells, cellWeather, i, requestsInWindow,
                                 windowStart, waitMs, attempt, delays,
                                 only429, retried, batchResult, sentInWindow,
                                 response, batches, gotItems>>
    /\ UNCHANGED <<now, snapshots, redis, ttlSeconds, store, mgetReply,
                   expires, pass, earlier,
                   consumed, previous, probe, requests>>

(***************************************************************************)
(* The cache lookup                                                        *)
(***************************************************************************)
CacheKeys(cs) == [n \in 1..Len(cs) |-> weatherCacheKey(cs[n])]

\* await redis.mget(keys) rejects: nothing in fetchWeatherForAllBalloons
\* catches it, so GET's catch answers
MgetRejects ==
    /\ pc = "mget"
    /\ MgetRejected(redis, CacheKeys(cells))
    /\ pc' = "done"
    /\ response' = Failure
    /\ UNCHANGED <<now, snapshots, balloons, builtAt, cells, redis, ttlSeconds,
                   store, missingCells, cellWeather, i, requestsInWindow,
                   windowStart, waitMs, attempt, delays, only429, retried,
                   batchResult, sentInWindow, mgetReply, batches, gotItems,
                   expires, pass, earlier,
                   consumed, previous, probe, requests>>

MgetReturns ==
    /\ pc = "mget"
    /\ ~MgetRejected(redis, CacheKeys(cells))
    /\ mgetReply' = Mget(Live(store, expires, now), CacheKeys(cells))
    /\ LoopHead(balloons, cells, MissesFrom(cells, mgetReply', 1), 0,
                CacheHits(cells, mgetReply'), 0, now, 0, now)
    /\ UNCHANGED <<now, snapshots, balloons, builtAt, cells, redis, ttlSeconds, store,
                   expires, pass, earlier,
                   consumed, previous, probe, requests>>

(***************************************************************************)
(* The batch loop                                                          *)
(***************************************************************************)
\* sleep(waitMs) ends: the window is reset and the batch call is made
LimiterWake ==
    /\ pc = "limiterSleep"
    /\ now' = now + waitMs
    /\ windowStart' = now'
    /\ requestsInWindow' = 0
    /\ sentInWindow' = 1
    /\ waitMs' = 0
    /\ batches' = Handed(batches, missingCells, i)
    /\ pc' = "fetching"
    /\ UNCHANGED <<snapshots, balloons, builtAt, cells, redis, ttlSeconds, store,
                   missingCells, cellWeather, i, attempt, delays, only429, retried,
                   batchResult, response, mgetReply, gotItems,
                   expires, pass, earlier,
                   consumed, previous, probe, requests>>

\* the provider answers the attempt in flight
FetchResponds ==
    /\ pc = "fetching"
    /\ \E reply \in ProviderReplies(Slice(missingCells, i)),
          latency \in Latencies(now - windowStart) :
          LET step == BatchStep(Slice(missingCells, i), reply, attempt)
          IN /\ now' = now + latency
             /\ only429' = (only429 /\ OutcomeKind(reply) = "429")
             /\ IF step.act = "retry"
                THEN /\ pc' = "retrySleep"
                     /\ delays' = Append(delays, step.delay)
                     /\ retried' = retried \cup {RetryCause(reply)}
                     /\ batchResult' = batchResult
                ELSE /\ pc' = "batchReturned"
                     /\ delays' = delays
                     /\ retried' = retried
                     /\ batchResult' = step.result
             /\ gotItems' = IF step.act = "return" /\ OutcomeKind(reply) = "ok"
                         THEN reply.items ELSE <<>>
    /\ UNCHANGED <<snapshots, balloons, builtAt, cells, redis, ttlSeconds, store,
                   missingCells, cellWeather, i, requestsInWindow, windowStart,
                   waitMs, attempt, sentInWindow, response, mgetReply, batches,
                   expires, pass, earlier,
                   consumed, previous, probe, requests>>

\* the provider never answers: fetch is called without a signal or a timeout
FetchStalls ==
    /\ pc = "fetching"
    /\ pc' = "stalled"
    /\ UNCHANGED <<now, snapshots, balloons, builtAt, cells, redis, ttlSeconds,
                   store, missingCells, cellWeather, i, requestsInWindow,
                   windowStart, waitMs, attempt, delays, only429, retried,
                   batchResult, sentInWindow, response, mgetReply, batches, gotItems,
                   expires, pass, earlier,
                   consumed, previous, probe, requests>>

\* sleep(delay) ends: fetchOpenMeteoBatch(cells, attempt + 1) sends again
RetryWake ==
    /\ pc = "retrySleep"
    /\ now' = now + delays[Len(delays)]
    /\ attempt' = attempt + 1
    /\ sentInWindow' = sentInWindow + 1
    /\ pc' = "fetching"
    /\ UNCHANGED <<snapshots, balloons, builtAt, cells, redis, ttlSeconds, store,
                   missingCells, cellWeather, i, requestsInWindow, windowStart,
                   waitMs, delays, only429, retried, batchResult, response,
                   mgetReply, batches, gotItems,
                   expires, pass, earlier,
                   consumed, previous, probe, requests>>

\* lines 475-495 up to the await of pipeline.exec(), or on to the next batch
AfterBatch ==
    /\ pc = "batchReturned"
    /\ consumed' = consumed + (Consume(requestsInWindow, Slice(missingCells, i))
                               - requestsInWindow)
    /\ IF redis # "unset" /\ ttlSeconds > 0
       THEN /\ pc' = "pipeline"
            /\ requestsInWindow' = Consume(requestsInWindow, Slice(missingCells, i))
            /\ cellWeather' = Merge(cellWeather, batchResult)
            /\ UNCHANGED <<missingCells, i, windowStart, waitMs, attempt, delays,
                           only429, retried, batchResult, sentInWindow, response,
                           batches, gotItems>>
       ELSE LoopHead(balloons, cells, missingCells, i + WEATHER_BATCH_SIZE,
                     Merge(cellWeather, batchResult),
                     Consume(requestsInWindow, Slice(missingCells, i)),
                     windowStart, sentInWindow, now)
    /\ UNCHANGED <<now, snapshots, balloons, builtAt, cells, redis, ttlSeconds, store,
                   mgetReply, expires, pass, earlier, previous, probe, requests>>

\* pipeline.exec() resolves: the batch's readings are in the store
PipelineExec ==
    /\ pc = "pipeline"
    /\ store' = WriteBack(store, Slice(missingCells, i), batchResult)
    /\ expires' = WriteBackExpiry(expires, Slice(missingCells, i), batchResult,
                                  ttlSeconds, now)
    /\ LoopHead(balloons, cells, missingCells, i + WEATHER_BATCH_SIZE,
                cellWeather, requestsInWindow, windowStart, sentInWindow, now)
    /\ UNCHANGED <<now, snapshots, balloons, builtAt, cells, redis, ttlSeconds,
                   mgetReply, pass, earlier,
                   consumed, previous, probe, requests>>

Next ==
    \/ \E h \in Hours : SnapshotSettles(h)
    \/ \E h \in Hours : SnapshotStalls(h)
    \/ JoinSnapshots
    \/ MgetRejects
    \/ MgetReturns
    \/ LimiterWake
    \/ FetchResponds
    \/ FetchStalls
    \/ RetryWake
    \/ AfterBatch
    \/ PipelineExec

Spec == Init /\ [][Next]_vars

\* every step that is enabled is eventually taken: the event loop runs every
\* ready continuation and every timer fires
FairSpec == Spec /\ WF_vars(Next)

(***************************************************************************)
(* Successive requests.  GET keeps nothing between two requests: the       *)
(* tracks, the cells and the limiter's counters are locals.  Only the      *)
(* cache service carries over.                                             *)
(***************************************************************************)
\* the time between one response and the next request: half a window less
\* than the entries' time to live, or a window more
Gaps(ttl) ==
    {g \in {ttl * 1000 - WINDOW_MS \div 2, ttl * 1000 + WINDOW_MS} : g >= 0}

\* what the requests so far have left in the cache: for every key SET with a
\* time to live, the string and the time of the SET
LeftInCache(st, exp, ttl) ==
    [k \in DOMAIN exp |-> [raw |-> st[k], at |-> exp[k] - ttl * 1000]]

\* GET is called again after a response; the upstream source serves the same
\* snapshots as before
NextRequest ==
    /\ pc = "done"
    /\ pass < MaxPasses
    /\ \E gap \in Gaps(ttlSeconds) : now' = now + gap
    /\ pass' = pass + 1
    /\ earlier' = LeftInCache(store, expires, ttlSeconds)
    /\ pc' = "snapshots"
    /\ balloons' = <<>>
    /\ builtAt' = 0
    /\ cells' = <<>>
    /\ missingCells' = <<>>
    /\ cellWeather' = EmptyMap
    /\ i' = 0
    /\ requestsInWindow' = 0
    /\ windowStart' = 0
    /\ waitMs' = 0
    /\ attempt' = 0
    /\ delays' = <<>>
    /\ only429' = TRUE
    /\ retried' = {}
    /\ batchResult' = EmptyMap
    /\ sentInWindow' = 0
    /\ response' = NoResponse
    /\ mgetReply' = <<>>
    /\ batches' = <<>>
    /\ gotItems' = <<>>
    /\ consumed' = 0
    /\ previous' = response
    /\ UNCHANGED <<snapshots, redis, ttlSeconds, store, expires, probe, requests>>

\* Across requests the provider is taken to answer at once and with an
\* answer that ends the batch call: a 2xx or 4xx status.
Calm ==
    /\ now' = now
    /\ pc' # "retrySleep"

NextInTurn ==
    \/ \E h \in Hours : SnapshotSettles(h)
    \/ \E h \in Hours : SnapshotStalls(h)
    \/ JoinSnapshots
    \/ MgetRejects
    \/ MgetReturns
    \/ LimiterWake
    \/ FetchResponds /\ Calm
    \/ FetchStalls
    \/ AfterBatch
    \/ PipelineExec
    \/ NextRequest

SuccessiveSpec == Init /\ [][NextInTurn]_vars

(***************************************************************************)
(* The pure functions on their own: an argument list is drawn, and the     *)
(* function is applied to it.                                              *)
(***************************************************************************)
\* the whole numbers up to four times the largest significand that are
\* floats, of either sign, and the grid sizes
RoundArgs ==
    {<<x * Scale, g * Scale>> :
        x \in {v \in (0 - Pow2(SignificandBits + 2))..Pow2(SignificandBits + 2) :
                  IsFloat(v * Scale)},
        g \in GridSizes}

\* what a current_weather object may hold in a field
FieldValues(numbers) == {Num(v) : v \in numbers} \cup {NumStr(36), BadStr, JNull}

WeatherArgs ==
    {<<[temperature |-> t, windspeed |-> w, winddirection |-> d]>> :
        t \in FieldValues({0 - 5, 21}),
        w \in FieldValues(0..(18 * SignificandBits)),
        d \in FieldValues({0, 359})}

\* a cell of two balloons and a cell of one, as clustering builds them
ProbeCells ==
    << [key |-> CellKey(10 * GRID_DEGREES, 21 * GRID_DEGREES),
        lat |-> 10 * GRID_DEGREES, lon |-> 21 * GRID_DEGREES,
        balloonIds |-> <<BalloonId(0), BalloonId(1)>>],
       [key |-> CellKey(0, 180 * GRID_DEGREES),
        lat |-> 0, lon |-> 180 * GRID_DEGREES,
        balloonIds |-> <<BalloonId(2)>>] >>

\* a batch of one cell or of two, an answer of the provider, and the attempt
BatchArgs ==
    {<<batch, reply, att>> :
        batch \in {SubSeq(ProbeCells, 1, 1), ProbeCells},
        reply \in UNION {ProviderReplies(b) : b \in {SubSeq(ProbeCells, 1, 1), ProbeCells}},
        att \in 0..maxRetries}

PureInit ==
    /\ Started
    /\ redis = "unset"
    /\ requests = <<>>
    /\ \/ \E args \in RoundArgs :
             probe = [fn |-> "roundToGrid", args |-> args, value |-> <<>>]
       \/ \E args \in BatchArgs :
             probe = [fn |-> "fetchOpenMeteoBatch", args |-> args, value |-> <<>>]
       \/ \E args \in WeatherArgs :
             probe = [fn |-> "ToBalloonWeather", args |-> args, value |-> <<>>]

Unprobed == <<pc, now, snapshots, balloons, builtAt, cells, redis, ttlSeconds, store,
              missingCells, cellWeather, i, requestsInWindow, windowStart, waitMs,
              attempt, delays, only429, retried, batchResult, sentInWindow, response,
              mgetReply, batches, gotItems, expires, pass, earlier, consumed,
              previous, requests>>

\* roundToGrid(x, g)
ApplyRoundToGrid ==
    /\ probe.fn = "roundToGrid"
    /\ probe.value = <<>>
    /\ probe' = [probe EXCEPT
                    !.value = <<roundToGridFloat(probe.args[1], probe.args[2])>>]
    /\ UNCHANGED Unprobed

\* roundToGrid(roundToGrid(x, g), g)
ApplyRoundToGridAgain ==
    /\ probe.fn = "roundToGrid"
    /\ Len(probe.value) = 1
    /\ probe' = [probe EXCEPT
                    !.value = Append(@, roundToGridFloat(probe.value[1], probe.args[2]))]
    /\ UNCHANGED Unprobed

\* the wx built from one current_weather object
ApplyToBalloonWeather ==
    /\ probe.fn = "ToBalloonWeather"
    /\ probe.value = <<>>
    /\ probe' = [probe EXCEPT !.value = <<ToBalloonWeather(probe.args[1])>>]
    /\ UNCHANGED Unprobed

\* one attempt of fetchOpenMeteoBatch(batch, att), answered by reply
ApplyBatchStep ==
    /\ probe.fn = "fetchOpenMeteoBatch"
    /\ probe.value = <<>>
    /\ probe' = [probe EXCEPT
                    !.value = <<BatchStep(probe.args[1], probe.args[2], probe.args[3])>>]
    /\ UNCHANGED Unprobed

PureNext ==
    \/ ApplyRoundToGrid
    \/ ApplyRoundToGridAgain
    \/ ApplyToBalloonWeather
    \/ ApplyBatchStep

PureSpec == PureInit /\ [][PureNext]_vars

(***************************************************************************)
(* Requests served side by side.  The process serves a second GET while    *)
(* the first is suspended at an await; each call of                        *)
(* fetchWeatherForAllBalloons has its own i, requestsInWindow and          *)
(* windowStart (lines 450-453).  Here every batch call is answered at its  *)
(* first attempt and there is no cache.                                    *)
(***************************************************************************)
Max(a, b) == IF a > b THEN a ELSE b

\* the numbers of missing cells a request may have: one batch, or one batch
\* more than the limiter lets through in a window
MissingCounts == {1, WEATHER_BATCH_SIZE * MAX_REQUESTS_PER_WINDOW + 1}

\* a request not yet received, with m cells to fetch
Waiting(m) == [pc |-> "idle", m |-> m, i |-> 0, requestsInWindow |-> 0,
               windowStart |-> 0, wakeAt |-> 0, sentAt |-> <<>>]

\* lines 453-474 for one request at time t: the for test, the limiter, and
\* the batch call, whose time goes to sentAt
HeadOf(rq, idx, reqs, t) ==
    IF idx >= rq.m
    THEN [rq EXCEPT !.pc = "done", !.i = idx, !.requestsInWindow = reqs]
    ELSE IF LimiterMustWait(reqs, t - rq.windowStart)
         THEN [rq EXCEPT !.pc = "sleeping", !.i = idx, !.requestsInWindow = reqs,
                         !.wakeAt = t + (WINDOW_MS - (t - rq.windowStart))]
         ELSE IF t - rq.windowStart >= WINDOW_MS
              THEN [rq EXCEPT !.pc = "fetching", !.i = idx, !.requestsInWindow = 0,
                              !.windowStart = t, !.sentAt = Append(@, t)]
              ELSE [rq EXCEPT !.pc = "fetching", !.i = idx, !.requestsInWindow = reqs,
                              !.sentAt = Append(@, t)]

ConcurrentInit ==
    /\ Started
    /\ redis = "unset"
    /\ probe = NoProbe
    /\ requests \in [1..2 -> {Waiting(m) : m \in MissingCounts}]

Alone == <<pc, snapshots, balloons, builtAt, cells, redis, ttlSeconds, store,
           missingCells, cellWeather, i, requestsInWindow, windowStart, waitMs,
           attempt, delays, only429, retried, batchResult, sentInWindow, response,
           mgetReply, batches, gotItems, expires, pass, earlier, consumed,
           previous, probe>>

\* GET is called for request r: lines 450-451, then the loop head
Arrive(r) ==
    /\ requests[r].pc = "idle"
    /\ requests' = [requests EXCEPT
                       ![r] = HeadOf([@ EXCEPT !.windowStart = now], 0, 0, now)]
    /\ UNCHANGED now
    /\ UNCHANGED Alone

\* the limiter's sleep of request r ends, lines 464-474
Wake(r) ==
    /\ requests[r].pc = "sleeping"
    /\ now' = Max(now, requests[r].wakeAt)
    /\ requests' = [requests EXCEPT
                       ![r] = [@ EXCEPT !.pc = "fetching", !.requestsInWindow = 0,
                                        !.windowStart = now',
                                        !.sentAt = Append(@, now')]]
    /\ UNCHANGED Alone

\* the batch call of request r returns, line 475, and the loop goes on
Respond(r) ==
    /\ requests[r].pc = "fetching"
    /\ \E latency \in {0, SlowLatencyMs} : now' = now + latency
    /\ requests' = [requests EXCEPT
                       ![r] = HeadOf(@, @.i + WEATHER_BATCH_SIZE,
                                     Consume(@.requestsInWindow,
                                             [n \in 1..Min(WEATHER_BATCH_SIZE, @.m - @.i) |-> n]),
                                     now')]
    /\ UNCHANGED Alone

ConcurrentNext == \E r \in 1..2 : Arrive(r) \/ Wake(r) \/ Respond(r)

ConcurrentSpec == ConcurrentInit /\ [][ConcurrentNext]_vars

(***************************************************************************)
(* Properties                                                              *)
(***************************************************************************)
TracksOf(bl) == {bl[n] : n \in 1..Len(bl)}
PointsOf(track) == {track.points[n] : n \in 1..Len(track.points)}

\* C1: within one enrichment pass, the number of HTTP requests sent to the
\* weather provider during a single limiter window never exceeds
\* maxPerWindow, every remote attempt (a retry included) counting as one
\* request.
C1_AttemptsWithinWindowCap ==
    now - windowStart < WINDOW_MS => sentInWindow <= MAX_REQUESTS_PER_WINDOW

\* A batch arrives at the head of the loop: the step that leaves the code
\* before the loop, or the end of the previous batch, for the limiter test.
BatchArrives ==
    /\ pc \in {"snapshots", "mget", "batchReturned", "pipeline"}
    /\ pc' \in {"limiterSleep", "fetching"}
\* units consumed in the window, and time elapsed in it, when the batch arrives
ConsumedAtArrival ==
    CASE pc \in {"snapshots", "mget"} -> 0
      [] pc = "batchReturned" -> requestsInWindow + 1
      [] OTHER -> requestsInWindow
ElapsedAtArrival == IF pc \in {"snapshots", "mget"} THEN 0 ELSE now - windowStart

\* C2: requestsInWindow never exceeds maxPerWindow; a batch that arrives when
\* exactly maxPerWindow units are consumed and windowMs has not elapsed since
\* windowStart suspends for windowMs - elapsed, after which the window is
\* reset (windowStart = now, requestsInWindow = 0) and the batch proceeds; a
\* batch that arrives once windowMs has elapsed proceeds without suspension
\* and resets the counter.
C2_FixedWindowLimiter ==
    /\ requestsInWindow <= MAX_REQUESTS_PER_WINDOW
    /\ [][ /\ requestsInWindow' <= MAX_REQUESTS_PER_WINDOW
           /\ (BatchArrives /\ ConsumedAtArrival = MAX_REQUESTS_PER_WINDOW
                  /\ ElapsedAtArrival < WINDOW_MS)
                 => (pc' = "limiterSleep" /\ waitMs' = WINDOW_MS - ElapsedAtArrival)
           /\ (pc = "limiterSleep" /\ pc' # pc)
                 => /\ now' = now + waitMs
                    /\ windowStart' = now'
                    /\ requestsInWindow' = 0
                    /\ pc' = "fetching"
           /\ (BatchArrives /\ ElapsedAtArrival >= WINDOW_MS)
                 => /\ pc' = "fetching"
                    /\ now' = now
                    /\ windowStart' = now
                    /\ requestsInWindow' = 0 ]_vars

\* a batch is suspended with the cap consumed, for the rest of the window
C2_Suspended ==
    /\ pc = "limiterSleep"
    /\ requestsInWindow = MAX_REQUESTS_PER_WINDOW
    /\ waitMs > 0
    /\ waitMs = WINDOW_MS - (now - windowStart)

StrictlyIncreasing(seq) == \A n \in 1..(Len(seq) - 1) : seq[n] < seq[n + 1]
LinearBackoff(seq) == \A n \in 1..Len(seq) : seq[n] = 500 * n

\* C3 as stated: a batch call whose every remote attempt is answered with
\* HTTP 429 returns an empty mapping without throwing, issues at most 5
\* remote attempts in total, and the delays between consecutive attempts are
\* strictly increasing, baseDelay * (attempt + 1).
C3_AtMostFiveAttempts ==
    (pc = "batchReturned" /\ only429)
        => /\ batchResult = EmptyMap
           /\ attempt + 1 <= 5
           /\ StrictlyIncreasing(delays)
           /\ LinearBackoff(delays)

\* C3 as the code has it: the first attempt and maxRetries = 5 retries, at
\* most 6 remote attempts in total; the rest as stated.
C3_AtMostSixAttempts ==
    (pc = "batchReturned" /\ only429)
        => /\ batchResult = EmptyMap
           /\ attempt + 1 <= 6
           /\ Len(delays) = attempt
           /\ StrictlyIncreasing(delays)
           /\ LinearBackoff(delays)

\* a batch call that was answered 429 every time has given up
C3_Exhausted429 ==
    /\ pc = "batchReturned"
    /\ only429
    /\ attempt = maxRetries
    /\ Len(delays) = 5

BatchKeys == {Slice(missingCells, i)[n].key : n \in 1..Len(Slice(missingCells, i))}

\* C4: whatever the provider answers (429, 5xx, network exceptions, other
\* statuses and bodies), fetchOpenMeteoBatch makes a bounded number of remote
\* attempts and then returns a mapping, possibly empty; no exception reaches
\* its caller, and status-based and exception-based retries draw on one
\* retry budget.
C4_BoundedRetriesNoThrow ==
    /\ [](/\ attempt <= maxRetries
          /\ Len(delays) = attempt + (IF pc = "retrySleep" THEN 1 ELSE 0)
          /\ (pc = "batchReturned" => DOMAIN batchResult \subseteq BatchKeys)
          /\ (response.status = 500 => sentInWindow = 0))
    /\ [][ (pc = "fetching" /\ attempt = maxRetries /\ pc' # pc)
              => pc' \in {"batchReturned", "stalled"} ]_vars

\* a batch call returns after retries of both kinds used up the budget
C4_MixedRetriesExhausted ==
    /\ pc = "batchReturned"
    /\ retried = {"status", "exception"}
    /\ attempt = maxRetries
    /\ batchResult = EmptyMap

\* C5: if the cache service is not configured or is unreachable, the bulk
\* lookup yields "absent" for every cell without raising, cache writes are
\* no-ops, and the request still succeeds by fetching every cell from the
\* provider.
C5_CacheOutageTolerated ==
    (pc = "done" /\ redis \in {"unset", "down"})
        => /\ response.status = 200
           /\ store = EmptyMap

\* C6: for any combination of unavailable snapshot hours (all of them
\* included, giving zero tracks and zero cells), malformed records, failed
\* weather batches and exhausted retries, GET returns a successful response;
\* it never answers "Failed to build balloon history" for these causes.
C6_NeverFailsOnPartialData ==
    (pc = "done" /\ redis \in {"unset", "up"}) => response.status = 200

\* a record the data model accepts: an array of at least 2 elements whose
\* coerced lat and lon are finite and in range
InRange(lat, lon) == -9000 <= lat /\ lat <= 9000 /\ -18000 <= lon /\ lon <= 18000
ValidRecord(entry) ==
    /\ entry.array
    /\ Len(entry.elems) >= 2
    /\ ToNumber(entry.elems[1]).k = "finite"
    /\ ToNumber(entry.elems[2]).k = "finite"
    /\ InRange(ToNumber(entry.elems[1]).v, ToNumber(entry.elems[2]).v)

\* C7: for every hour h in [0, HOURS_BACK) whose snapshot was retrieved,
\* whatever other hours are unavailable, every valid record of hour h becomes
\* a Position with snapshotIndex = h and a timestamp of now minus h hours.
C7_PositionsTaggedWithHour ==
    pc \notin {"snapshots"} =>
        \A h \in Hours :
            snapshots[h].value.ok =>
                \A n \in 1..Len(snapshots[h].value.data) :
                    ValidRecord(snapshots[h].value.data[n]) =>
                        \E track \in TracksOf(balloons) :
                            /\ track.id = BalloonId(n - 1)
                            /\ \E p \in PointsOf(track) :
                                  /\ p.snapshotIndex = h - 1
                                  /\ p.timestamp = builtAt - (h - 1) * 3600000
                                  /\ p.lat = ToNumber(snapshots[h].value.data[n].elems[1]).v
                                  /\ p.lon = ToNumber(snapshots[h].value.data[n].elems[2]).v

\* C8: every Position in every track GET returns has finite lat and lon with
\* -90 <= lat <= 90 and -180 <= lon <= 180; a record that is out of range is
\* discarded while the other records of the snapshot are kept.
C8_PositionsInRange ==
    response.status = 200 =>
        \A track \in TracksOf(response.balloons) :
            \A p \in PointsOf(track) : InRange(p.lat, p.lon)

\* C9: every enrichment request eventually returns a response; a snapshot
\* fetch or weather call that never completes is cut off by a timeout.
C9_EventuallyResponds == <>(pc = "done")

\* the cell key of a track's latest position
LatestKey(track) ==
    CellKey(roundToGrid(track.points[1].lat, GRID_DEGREES),
            roundToGrid(track.points[1].lon, GRID_DEGREES))
\* a balloon's entry of latestWeather: <<>> when it has none
WeatherOf(resp, id) ==
    IF id \in DOMAIN resp.latestWeather THEN <<resp.latestWeather[id]>> ELSE <<>>

\* C10: two balloons whose latest positions round to the same cell key
\* receive the identical WeatherReading in latestWeather, the one reading
\* resolved for that cell, in every enrichment pass.
C10_SameCellSameReading ==
    response.status = 200 =>
        \A t1, t2 \in TracksOf(response.balloons) :
            LatestKey(t1) = LatestKey(t2) =>
                WeatherOf(response, t1.id) = WeatherOf(response, t2.id)

\* two balloons of one cell both have a reading
C10_TwoBalloonsShareReading ==
    /\ response.status = 200
    /\ \E t1, t2 \in TracksOf(response.balloons) :
          /\ t1.id # t2.id
          /\ LatestKey(t1) = LatestKey(t2)
          /\ t1.id \in DOMAIN response.latestWeather
          /\ t2.id \in DOMAIN response.latestWeather

\* the cell at position n was answered by the cache lookup
CacheHit(n) ==
    /\ redis # "unset"
    /\ n <= Len(mgetReply)
    /\ mgetReply[n] # <<>>
    /\ mgetReply[n][1].json

\* the cell at position n went out in a batch whose call returned its reading
FreshlyFetched(n) ==
    /\ \E b \in 1..Len(batches) : \E m \in 1..Len(batches[b]) : batches[b][m] = cells[n]
    /\ cells[n].key \in DOMAIN cellWeather

CellResolved(n) == CacheHit(n) \/ FreshlyFetched(n)

\* C11: in a successful response, latestWeather has an entry for a balloon
\* id if and only if the balloon's cell was resolved in this pass, by a cache
\* hit or by a batch call that returned its reading; the balloons of a cell
\* that was never resolved have no entry, and no entry names anything but
\* an emitted balloon.
C11_EntryIffCellResolved ==
    response.status = 200 =>
       /\ \A id \in DOMAIN response.latestWeather :
             \E t \in TracksOf(response.balloons) : t.id = id
       /\ \A t \in TracksOf(response.balloons) :
             (t.id \in DOMAIN response.latestWeather)
                <=> \E n \in 1..Len(cells) : t.id \in IdsOf(cells[n]) /\ CellResolved(n)

\* a response where one balloon's cell came from the cache, another's from a
\* fresh fetch, and a third balloon's cell was never resolved
C11_HitFetchedAndUnresolved ==
    /\ response.status = 200
    /\ \E n1, n2, n3 \in 1..Len(cells) :
          /\ CacheHit(n1)
          /\ ~CacheHit(n2) /\ FreshlyFetched(n2)
          /\ ~CellResolved(n3)
          /\ \A id \in IdsOf(cells[n1]) \cup IdsOf(cells[n2]) :
                id \in DOMAIN response.latestWeather
          /\ \A id \in IdsOf(cells[n3]) : id \notin DOMAIN response.latestWeather

\* the places a cell takes in the batches sent so far, and in missingCells
BatchPlaces(cell) ==
    {<<b, m>> \in (1..Len(batches)) \X (1..WEATHER_BATCH_SIZE) :
        m <= Len(batches[b]) /\ batches[b][m] = cell}
MissingPlaces(cell) == {m \in 1..Len(missingCells) : missingCells[m] = cell}

\* the cache answered the cell at position n with a string JSON.parse rejects
ParseFailed(n) ==
    /\ redis # "unset"
    /\ n <= Len(mgetReply)
    /\ mgetReply[n] # <<>>
    /\ ~mgetReply[n][1].json

\* C12: once the cache lookup of a pass is over, every cell is either
\* resolved from the cache, and then in no remote batch, or a miss that is
\* queued once and sent in at most one batch, in exactly one by the time the
\* pass returns; a cached entry that does not parse is a miss; and no batch
\* holds more than WEATHER_BATCH_SIZE cells.
C12_HitOrExactlyOneBatch ==
    (pc \notin {"snapshots", "mget"} /\ response.status # 500) =>
       /\ \A n \in 1..Len(cells) :
             /\ CacheHit(n) =>
                   BatchPlaces(cells[n]) = {} /\ MissingPlaces(cells[n]) = {}
             /\ ~CacheHit(n) =>
                   /\ Cardinality(MissingPlaces(cells[n])) = 1
                   /\ Cardinality(BatchPlaces(cells[n])) <= 1
                   /\ response.status = 200 => Cardinality(BatchPlaces(cells[n])) = 1
             /\ ParseFailed(n) => MissingPlaces(cells[n]) # {}
       /\ \A b \in 1..Len(batches) :
             /\ 1 <= Len(batches[b])
             /\ Len(batches[b]) <= WEATHER_BATCH_SIZE
             /\ \A m \in 1..Len(batches[b]) :
                   \E n \in 1..Len(cells) : cells[n] = batches[b][m]

\* a pass that returned after two batches, one of them carrying a cell whose
\* cached entry did not parse
C12_ParseFailureSentOnce ==
    /\ response.status = 200
    /\ Len(batches) = 2
    /\ Len(batches[1]) = WEATHER_BATCH_SIZE
    /\ \E n \in 1..Len(cells) :
          ParseFailed(n) /\ Cardinality(BatchPlaces(cells[n])) = 1

\* the coerced coordinates of the record at position n of hour h
RecordLat(h, n) == ToNumber(snapshots[h].value.data[n].elems[1]).v
RecordLon(h, n) == ToNumber(snapshots[h].value.data[n].elems[2]).v

\* the retrieved hours that hold a valid record with these coordinates at
\* array position idx, and the points of a track with these coordinates
HoursHolding(idx, lat, lon) ==
    {h \in Hours :
        /\ snapshots[h].value.ok
        /\ idx + 1 <= Len(snapshots[h].value.data)
        /\ ValidRecord(snapshots[h].value.data[idx + 1])
        /\ RecordLat(h, idx + 1) = lat
        /\ RecordLon(h, idx + 1) = lon}
PointsAt(track, lat, lon) ==
    {m \in 1..Len(track.points) : track.points[m].lat = lat /\ track.points[m].lon = lon}

\* C14: a failed fetch of hour h (network error, non-success status,
\* non-array body) makes hour h alone unavailable.  No track is built while
\* a fetch is still unsettled, the join ends only when all HOURS_BACK
\* fetches have settled, and every valid record of every retrieved hour is
\* in the track of its index, once per retrieved hour that holds it.
C14_OnlyFailedHourUnavailable ==
    /\ pc = "snapshots" => (balloons = <<>> /\ cells = <<>>)
    /\ pc # "snapshots" =>
          /\ \A h \in Hours : snapshots[h].state = "settled"
          /\ \A h \in Hours :
                snapshots[h].value.ok =>
                   \A n \in 1..Len(snapshots[h].value.data) :
                      ValidRecord(snapshots[h].value.data[n]) =>
                         \E track \in TracksOf(balloons) :
                            /\ track.id = BalloonId(n - 1)
                            /\ Cardinality(PointsAt(track, RecordLat(h, n), RecordLon(h, n)))
                                  >= Cardinality(HoursHolding(n - 1, RecordLat(h, n),
                                                              RecordLon(h, n)))

\* the first hour failed, a later hour was retrieved and its valid records
\* are in the tracks GET returned
C14_LaterHourSurvivesFailure ==
    /\ response.status = 200
    /\ ~snapshots[1].value.ok
    /\ \E h \in Hours :
          /\ snapshots[h].value.ok
          /\ \E n \in 1..Len(snapshots[h].value.data) :
                /\ ValidRecord(snapshots[h].value.data[n])
                /\ \E track \in TracksOf(response.balloons) :
                      /\ track.id = BalloonId(n - 1)
                      /\ PointsAt(track, RecordLat(h, n), RecordLon(h, n)) # {}

\* a record buildBalloonHistory keeps: an array of at least 2 elements whose
\* coerced lat and lon are finite
Kept(entry) ==
    /\ entry.array
    /\ Len(entry.elems) >= 2
    /\ ToNumber(entry.elems[1]).k = "finite"
    /\ ToNumber(entry.elems[2]).k = "finite"

\* the retrieved hours whose array keeps a record at position idx
HoursKeeping(idx) ==
    {h \in Hours :
        /\ snapshots[h].value.ok
        /\ idx + 1 <= Len(snapshots[h].value.data)
        /\ Kept(snapshots[h].value.data[idx + 1])}

\* C15: a valid record at array position i of a retrieved hour is a point
\* of the track balloon-i, however many records before or after it in the
\* array were dropped; and every point of the track balloon-i is the record
\* at position i of some retrieved hour, so that the track has one point per
\* retrieved hour keeping a record there.
C15_IndexNamesTrack ==
    pc # "snapshots" =>
       /\ \A h \in Hours :
             snapshots[h].value.ok =>
                \A n \in 1..Len(snapshots[h].value.data) :
                   ValidRecord(snapshots[h].value.data[n]) =>
                      \E track \in TracksOf(balloons) :
                         /\ track.id = BalloonId(n - 1)
                         /\ \E p \in PointsOf(track) :
                               /\ p.balloonId = BalloonId(n - 1)
                               /\ p.lat = RecordLat(h, n)
                               /\ p.lon = RecordLon(h, n)
       /\ \A track \in TracksOf(balloons) :
             \E g \in Hours : \E idx \in 0..(Len(snapshots[g].value.data) - 1) :
                /\ track.id = BalloonId(idx)
                /\ Len(track.points) = Cardinality(HoursKeeping(idx))
                /\ \A p \in PointsOf(track) :
                      \E h \in HoursKeeping(idx) :
                         /\ p.lat = RecordLat(h, idx + 1)
                         /\ p.lon = RecordLon(h, idx + 1)

\* a valid record that follows a dropped one in its array and is in the
\* track of its own index
C15_ValidAfterDropped ==
    /\ pc # "snapshots"
    /\ \E h \in Hours :
          /\ snapshots[h].value.ok
          /\ \E n \in 2..Len(snapshots[h].value.data) :
                /\ ~Kept(snapshots[h].value.data[1])
                /\ ValidRecord(snapshots[h].value.data[n])
                /\ \E track \in TracksOf(balloons) :
                      /\ track.id = BalloonId(n - 1)
                      /\ PointsAt(track, RecordLat(h, n), RecordLon(h, n)) # {}
                /\ \A track \in TracksOf(balloons) : track.id # BalloonId(0)

\* the places a balloon id takes in the cells' balloonIds
CellPlaces(id) ==
    {<<n, m>> \in (1..Len(cells)) \X (1..Len(balloons)) :
        m <= Len(cells[n].balloonIds) /\ cells[n].balloonIds[m] = id}

\* C16: every balloon with an emitted track belongs to exactly one cell of
\* the pass: its id is in the balloonIds of exactly one cell, exactly once;
\* and the cells hold nothing but the ids of emitted tracks.
C16_ExactlyOneCellPerBalloon ==
    pc # "snapshots" =>
       /\ \A track \in TracksOf(balloons) : Cardinality(CellPlaces(track.id)) = 1
       /\ \A n \in 1..Len(cells) :
             /\ Len(cells[n].balloonIds) >= 1
             /\ Len(cells[n].balloonIds) <= Len(balloons)
             /\ \A id \in IdsOf(cells[n]) :
                   \E track \in TracksOf(balloons) : track.id = id

\* three balloons in two cells, one of them absent from the newest snapshot
C16_SharedAndSingleCells ==
    /\ pc # "snapshots"
    /\ Len(balloons) = 3
    /\ Len(cells) = 2
    /\ \E n \in 1..Len(cells) : Len(cells[n].balloonIds) = 2
    /\ \E track \in TracksOf(balloons) : track.points[1].snapshotIndex # 0

\* the most recent point of a track: the one with the smallest snapshotIndex
MostRecent(track) ==
    CHOOSE p \in PointsOf(track) :
       \A q \in PointsOf(track) : p.snapshotIndex <= q.snapshotIndex

\* the grid line nearest to a coordinate, of the two around it; the upper
\* one on a tie
GridLineBelow(v) == v - (v % GRID_DEGREES)
NearestGridLine(v) ==
    IF 2 * (v - GridLineBelow(v)) < GRID_DEGREES
    THEN GridLineBelow(v)
    ELSE GridLineBelow(v) + GRID_DEGREES

SameCell(t1, t2) ==
    \E n \in 1..Len(cells) : t1.id \in IdsOf(cells[n]) /\ t2.id \in IdsOf(cells[n])

\* C17: two tracks are in the same cell if and only if the grid-rounded
\* latitude and the grid-rounded longitude of their most recent points (the
\* points with the smallest snapshotIndex) are both equal; a cell's lat and
\* lon are those rounded values, its key is written from them alone, and two
\* cells have the same key only if they have the same lat and lon.
C17_SameCellIffSameRounding ==
    pc # "snapshots" =>
       /\ \A t1, t2 \in TracksOf(balloons) :
             SameCell(t1, t2)
                <=> /\ NearestGridLine(MostRecent(t1).lat) = NearestGridLine(MostRecent(t2).lat)
                    /\ NearestGridLine(MostRecent(t1).lon) = NearestGridLine(MostRecent(t2).lon)
       /\ \A n \in 1..Len(cells) :
             /\ cells[n].key = <<toFixed1(cells[n].lat), ",", toFixed1(cells[n].lon)>>
             /\ \A track \in TracksOf(balloons) :
                   track.id \in IdsOf(cells[n]) =>
                      /\ cells[n].lat = NearestGridLine(MostRecent(track).lat)
                      /\ cells[n].lon = NearestGridLine(MostRecent(track).lon)
       /\ \A n1, n2 \in 1..Len(cells) :
             cells[n1].key = cells[n2].key => n1 = n2

\* two tracks whose most recent points differ but round to the same grid
\* lines, one coordinate rounding up from a half, share a cell, and a third
\* track is in another cell
C17_DifferentPointsSameCell ==
    /\ pc # "snapshots"
    /\ \E t1, t2, t3 \in TracksOf(balloons) :
          /\ t1.id # t2.id
          /\ MostRecent(t1).lat # MostRecent(t2).lat
          /\ MostRecent(t1).lon # MostRecent(t2).lon
          /\ MostRecent(t1).lon % GRID_DEGREES = GRID_DEGREES \div 2
          /\ SameCell(t1, t2)
          /\ ~SameCell(t1, t3)

\* C18: a track with zero valid points is never emitted: every track of
\* the balloons mapping, as built and as returned, has at least one point,
\* whatever hours are unavailable and whatever records are malformed.
C18_NoEmptyTrack ==
    /\ \A track \in TracksOf(balloons) : Len(track.points) >= 1
    /\ \A track \in TracksOf(response.balloons) : Len(track.points) >= 1
    /\ response.status = 200 => response.balloons = balloons

\* GET returned tracks although an hour was unavailable and, at some array
\* position, every record of the retrieved hours was dropped: that position
\* has no track
C18_DroppedIndexHasNoTrack ==
    /\ response.status = 200
    /\ response.balloons # <<>>
    /\ \E h \in Hours : ~snapshots[h].value.ok
    /\ \E h \in Hours :
          /\ snapshots[h].value.ok
          /\ \E n \in 1..Len(snapshots[h].value.data) :
                /\ HoursKeeping(n - 1) = {}
                /\ \A track \in TracksOf(response.balloons) : track.id # BalloonId(n - 1)

\* the earliest retrieved hour that keeps a record at position idx
FirstHourKeeping(idx) ==
    CHOOSE h \in HoursKeeping(idx) : \A g \in HoursKeeping(idx) : h <= g

\* C19: in every emitted track the points are in ascending order of
\* snapshotIndex and every point's balloonId is the track's id; the first
\* stored point is the most recent capture, the record of the earliest
\* retrieved hour that has one for the balloon.
C19_PointsAscendingAndOwned ==
    /\ response.status = 200 => response.balloons = balloons
    /\ \A track \in TracksOf(balloons) :
       /\ \A m \in 1..(Len(track.points) - 1) :
             track.points[m].snapshotIndex <= track.points[m + 1].snapshotIndex
       /\ \A p \in PointsOf(track) : p.balloonId = track.id
       /\ \A g \in Hours : \A idx \in 0..(Len(snapshots[g].value.data) - 1) :
             track.id = BalloonId(idx) =>
                /\ track.points[1].lat = RecordLat(FirstHourKeeping(idx), idx + 1)
                /\ track.points[1].lon = RecordLon(FirstHourKeeping(idx), idx + 1)

\* a returned track with two points captured at different hours and places
C19_TwoHourTrack ==
    /\ response.status = 200
    /\ \E track \in TracksOf(response.balloons) :
          /\ Len(track.points) = 2
          /\ track.points[1].snapshotIndex < track.points[2].snapshotIndex
          /\ track.points[1].lat # track.points[2].lat

\* C20: when a batch call returns, the i-th item of the provider's answer
\* is the reading of the i-th cell of the batch and of no other cell; a cell
\* beyond the last item has no reading, the result names no cell outside the
\* batch, and the call has returned without failing the request.
C20_ItemsMatchedByPosition ==
    pc = "batchReturned" =>
       LET batch == Slice(missingCells, i)
       IN /\ \A n \in 1..Len(batch) :
                /\ (batch[n].key \in DOMAIN batchResult) <=> n <= Len(gotItems)
                /\ n <= Len(gotItems) =>
                      batchResult[batch[n].key]
                         = ToBalloonWeather(gotItems[n].current_weather)
          /\ DOMAIN batchResult \subseteq {batch[n].key : n \in 1..Len(batch)}
          /\ response.status # 500

\* a batch of two cells answered with one item: the first cell has the
\* reading, the second has none
C20_ShortAnswer ==
    /\ pc = "batchReturned"
    /\ Len(Slice(missingCells, i)) = 2
    /\ Len(gotItems) = 1
    /\ Slice(missingCells, i)[1].key \in DOMAIN batchResult
    /\ Slice(missingCells, i)[2].key \notin DOMAIN batchResult

\* the SETs of a batch are in the cache: every cell of the batch with a
\* reading has its string stored under its key, to expire ttlSeconds later
BatchStored ==
    \A n \in 1..Len(Slice(missingCells, i)) :
       LET cell == Slice(missingCells, i)[n]
       IN cell.key \in DOMAIN batchResult =>
             /\ weatherCacheKey(cell) \in DOMAIN store'
             /\ store'[weatherCacheKey(cell)] = Stringify(batchResult[cell.key])
             /\ expires'[weatherCacheKey(cell)] = now + ttlSeconds * 1000
             /\ Mget(Live(store', expires', now'), <<weatherCacheKey(cell)>>)
                   = << <<Stringify(batchResult[cell.key])>> >>

\* the cell at position n was left in the cache by an earlier request, and
\* this request looked it up before, or after, its time to live had elapsed
LeftEarlier(n) == weatherCacheKey(cells[n]) \in DOMAIN earlier
LookedUpBeforeExpiry(n) ==
    builtAt < earlier[weatherCacheKey(cells[n])].at + ttlSeconds * 1000
LookedUpAfterExpiry(n) ==
    builtAt > earlier[weatherCacheKey(cells[n])].at + ttlSeconds * 1000

\* a later request, once its cache lookup is over
LaterPassLookedUp ==
    pass > 1 /\ pc \notin {"snapshots", "mget"} /\ response.status # 500

\* C13: with a cache and a positive time to live, the readings a batch call
\* returned are stored under their cells' keys with the configured time to
\* live; a later request that needs such a cell before the time to live has
\* elapsed takes the stored reading from the cache and sends the cell in no
\* batch, and a request after it has elapsed finds the cell absent and sends
\* it in a batch again.
C13_CachedUntilExpiry ==
    /\ [](LaterPassLookedUp =>
            \A n \in 1..Len(cells) :
               LeftEarlier(n) =>
                  /\ LookedUpBeforeExpiry(n) =>
                        /\ CacheHit(n)
                        /\ BatchPlaces(cells[n]) = {}
                        /\ cells[n].key \in DOMAIN cellWeather
                        /\ Stringify(cellWeather[cells[n].key])
                              = earlier[weatherCacheKey(cells[n])].raw
                        /\ response.status = 200 =>
                              \A id \in IdsOf(cells[n]) :
                                 /\ id \in DOMAIN response.latestWeather
                                 /\ Stringify(response.latestWeather[id])
                                       = earlier[weatherCacheKey(cells[n])].raw
                  /\ LookedUpAfterExpiry(n) =>
                        /\ ~CacheHit(n)
                        /\ MissingPlaces(cells[n]) # {}
                        /\ response.status = 200 =>
                              Cardinality(BatchPlaces(cells[n])) = 1)
    /\ [][ /\ (pc = "batchReturned" /\ redis = "up" /\ ttlSeconds > 0)
                 => pc' = "pipeline"
           /\ (pc = "pipeline" /\ pc' # "pipeline") => BatchStored ]_vars

\* a second request that took one cell from the cache, left there by the
\* first, and fetched again another whose entry had expired
C13_OneLiveOneExpired ==
    /\ pass = 2
    /\ response.status = 200
    /\ \E n1, n2 \in 1..Len(cells) :
          /\ LeftEarlier(n1) /\ LookedUpBeforeExpiry(n1)
          /\ CacheHit(n1) /\ BatchPlaces(cells[n1]) = {}
          /\ LeftEarlier(n2) /\ LookedUpAfterExpiry(n2)
          /\ Cardinality(BatchPlaces(cells[n2])) = 1
          /\ cells[n2].key \in DOMAIN cellWeather

(***************************************************************************)
(* C21  Each batch call takes exactly one unit of the limiter, whatever    *)
(* the number of cells in the batch: the step that follows the call's      *)
(* return adds one to requestsInWindow (before a new window may clear it), *)
(* and a request with m cells missing from the cache has taken             *)
(* ceil(m / WEATHER_BATCH_SIZE) units when it responds.                    *)
(***************************************************************************)
CeilDiv(m, size) == (m + size - 1) \div size

C21_OneUnitPerBatch ==
    /\ [](pc = "done" /\ response.status = 200
            => consumed = CeilDiv(Len(missingCells), WEATHER_BATCH_SIZE))
    /\ [][/\ pc = "batchReturned" => consumed' = consumed + 1
          /\ pc = "batchReturned" /\ pc' = "pipeline"
                => requestsInWindow' = requestsInWindow + 1
          /\ pc # "batchReturned" => consumed' = consumed \/ consumed' = 0]_vars

\* a request that sent a batch of two cells and a batch of one has responded
C21_TwoBatchesThreeCells ==
    /\ pc = "done"
    /\ response.status = 200
    /\ Len(missingCells) = WEATHER_BATCH_SIZE + 1
    /\ Len(batches) = 2
    /\ Len(batches[1]) = WEATHER_BATCH_SIZE
    /\ consumed = 2


(***************************************************************************)
(* C22  When the only cell of a request holds two balloons or more, the    *)
(* cache is reachable and empty, and the provider answers the batch at the *)
(* first attempt, the request sends exactly one remote request, with that  *)
(* cell in it once; every balloon of the cell gets the same reading, the   *)
(* one the provider gave for the cell; and the cache then holds exactly    *)
(* one entry, under the cell's key.  In every request, a cell of several   *)
(* balloons that a batch call resolved was sent in one place only.         *)
(***************************************************************************)
ProviderReading(cell) == ToBalloonWeather(ProviderItem(cell).current_weather)

\* the write-back of the only batch is pending, after an answer at the
\* first attempt, for a cell of several balloons and an empty cache
SharedCellAnswered ==
    /\ pc = "pipeline"
    /\ Len(cells) = 1
    /\ Cardinality(IdsOf(cells[1])) >= 2
    /\ store = EmptyMap
    /\ attempt = 0
    /\ gotItems # <<>>

C22_SharedCellOneRequestOneEntry ==
    /\ [](pc = "done" /\ response.status = 200 =>
            \A n \in 1..Len(cells) :
               Cardinality(IdsOf(cells[n])) >= 2 /\ ~CacheHit(n) /\ FreshlyFetched(n)
                  => /\ Cardinality(BatchPlaces(cells[n])) = 1
                     /\ \A id \in IdsOf(cells[n]) :
                           WeatherOf(response, id) = <<cellWeather[cells[n].key]>>)
    /\ [][SharedCellAnswered =>
            /\ pc' = "done"
            /\ response'.status = 200
            /\ batches' = <<cells>>
            /\ sentInWindow' = 1
            /\ \A id \in IdsOf(cells[1]) :
                  /\ id \in DOMAIN response'.latestWeather
                  /\ response'.latestWeather[id] = ProviderReading(cells[1])
            /\ DOMAIN store' = {weatherCacheKey(cells[1])}
            /\ store'[weatherCacheKey(cells[1])] = Stringify(ProviderReading(cells[1]))
         ]_vars

\* the request of two balloons in one cell has responded and left its entry
C22_TwoBalloonsOneEntry ==
    /\ pc = "done"
    /\ response.status = 200
    /\ Len(cells) = 1
    /\ Cardinality(IdsOf(cells[1])) = 2
    /\ Len(batches) = 1
    /\ Cardinality(DOMAIN response.latestWeather) = 2
    /\ DOMAIN store = {weatherCacheKey(cells[1])}
    /\ DOMAIN expires = DOMAIN store


(***************************************************************************)
(* C23  A request served after another, from the same snapshots and with   *)
(* the provider giving the same reading for a cell, answers with the same  *)
(* status, the same tracks (ids, coordinates, altitudes and snapshotIndex  *)
(* of every point, in the same order) and, for every balloon that has a    *)
(* reading in both responses, the same reading, whether the cache or the   *)
(* provider gave it the second time.  Between two requests only the cache  *)
(* changes, and only by readings a batch call returned.                    *)
(***************************************************************************)
Untimed(p) == [balloonId |-> p.balloonId, lat |-> p.lat, lon |-> p.lon,
               alt |-> p.alt, snapshotIndex |-> p.snapshotIndex]

UntimedTracks(bl) ==
    [n \in 1..Len(bl) |->
        [id |-> bl[n].id,
         points |-> [k \in 1..Len(bl[n].points) |-> Untimed(bl[n].points[k])]]]

OneDecimal(v) == [neg |-> v < 0, tenths |-> (IF v < 0 THEN 0 - v ELSE v) \div 10]

WxKey(cell) == <<"wx:", OneDecimal(cell.lat), ":", OneDecimal(cell.lon)>>

C24_CacheKeysNamedByCell ==
    /\ [](\A n, m \in 1..Len(cells) :
             n # m => weatherCacheKey(cells[n]) # weatherCacheKey(cells[m]))
    /\ [][/\ pc = "mget" /\ response'.status # 500 =>
               /\ Len(mgetReply') = Len(cells)
               /\ \A n \in 1..Len(cells) :
                     mgetReply'[n] =
                        IF WxKey(cells[n]) \in DOMAIN Live(store, expires, now)
                        THEN <<store[WxKey(cells[n])]>> ELSE <<>>
          /\ pc = "pipeline" =>
               /\ DOMAIN store' \ DOMAIN store
                     \subseteq {WxKey(Slice(missingCells, i)[n]) :
                                   n \in 1..Len(Slice(missingCells, i))}
               /\ \A k \in DOMAIN store' : k \in DOMAIN store /\ store'[k] # store[k] =>
                     \E n \in 1..Len(Slice(missingCells, i)) :
                        k = WxKey(Slice(missingCells, i)[n])
               /\ DOMAIN expires' \subseteq {WxKey(cells[n]) : n \in 1..Len(cells)}
         ]_vars

\* a request has looked up three cells, found one of them and written the
\* readings of the two others under their keys
C24_ThreeCellsThreeKeys ==
    /\ pc = "done"
    /\ response.status = 200
    /\ Len(cells) = 3
    /\ \E n \in 1..3 : CacheHit(n)
    /\ Cardinality(DOMAIN store) = 3
    /\ Cardinality(DOMAIN expires) = 2


(***************************************************************************)
(* C26  Grid rounding is idempotent: roundToGrid(roundToGrid(x, g), g) =   *)
(* roundToGrid(x, g) for every finite x and every grid size g.             *)
(***************************************************************************)
C26_RoundToGridIdempotent ==
    probe.fn = "roundToGrid" /\ Len(probe.value) = 2
        => probe.value[2] = probe.value[1]

\* the product Math.round(x / g) * g of the first rounding was exact
ProductExact ==
    LET n == MathRound(Divide(probe.args[1], probe.args[2]))
    IN probe.value[1] * Scale = n * probe.args[2]

\* C26, amended: roundToGrid is idempotent wherever the product
\* Math.round(x / g) * g is computed without a rounding error, which is so
\* for the grid size 1 and every x.
C26_IdempotentWhereProductExact ==
    probe.fn = "roundToGrid" /\ Len(probe.value) = 2 =>
       /\ ProductExact => probe.value[2] = probe.value[1]
       /\ probe.args[2] = Scale => ProductExact

\* a number off the grid of size 3 was rounded twice, to the same grid line
C26_RoundedTwiceToSameLine ==
    /\ probe.fn = "roundToGrid"
    /\ Len(probe.value) = 2
    /\ probe.args[2] = 3 * Scale
    /\ probe.args[1] # probe.value[1]
    /\ ProductExact
    /\ probe.value[2] = probe.value[1]


(***************************************************************************)
(* C25  A wind speed the provider gives in km/h becomes the speed divided  *)
(* by 3.6 (36 km/h is 10 m/s; here the whole metres per second of the      *)
(* quotient, which is the quotient itself for every multiple of 18 km/h);  *)
(* the temperature and the wind direction are passed on unchanged; and a   *)
(* field that is not a number becomes null.                                *)
(***************************************************************************)
Unchanged(field, out) ==
    IF field.t = "number" THEN out = <<field.v>> ELSE out = <<>>

C25_WindDividedRestUnchanged ==
    probe.fn = "ToBalloonWeather" /\ probe.value # <<>> =>
       LET cw == probe.args[1]
           wx == probe.value[1]
       IN /\ Unchanged(cw.temperature, wx.temperatureC)
          /\ Unchanged(cw.winddirection, wx.windDirectionDeg)
          /\ cw.windspeed.t # "number" => wx.windSpeedMs = <<>>
          /\ cw.windspeed.t = "number" =>
                /\ Len(wx.windSpeedMs) = 1
                /\ 36 * wx.windSpeedMs[1] <= 10 * cw.windspeed.v
                /\ 10 * cw.windspeed.v < 36 * (wx.windSpeedMs[1] + 1)
                /\ cw.windspeed.v % 18 = 0 =>
                      18 * wx.windSpeedMs[1] = 5 * cw.windspeed.v
                /\ cw.windspeed.v = 36 => wx.windSpeedMs = <<10>>

\* 36 km/h, 21 degrees and a direction given as a string were converted
C25_ThirtySixBecomesTen ==
    /\ probe.fn = "ToBalloonWeather"
    /\ probe.args[1] = [temperature |-> Num(21), windspeed |-> Num(36),
                        winddirection |-> BadStr]
    /\ probe.value = << [temperatureC |-> <<21>>, windSpeedMs |-> <<10>>,
                         windDirectionDeg |-> <<>>] >>


(***************************************************************************)
(* C27  An answer that is a non-retryable failure, a 4xx status other than *)
(* 429 or a 2xx status with a body that is malformed or is not the         *)
(* expected array, is not retried: the attempt it answers is the call's    *)
(* last, the first attempt included, and the call returns the readings     *)
(* that could be parsed, none unless the body was an object.               *)
(***************************************************************************)
NonRetryable(reply) ==
    /\ reply.kind = "http"
    /\ \/ reply.status >= 400 /\ reply.status < 500 /\ reply.status # 429
       \/ reply.status >= 200 /\ reply.status < 300
          /\ reply.body \in {"badjson", "object"}

C27_NonRetryableNotRetried ==
    probe.fn = "fetchOpenMeteoBatch" /\ probe.value # <<>>
       /\ NonRetryable(probe.args[2])
    => /\ probe.value[1].act = "return"
       /\ probe.value[1].result =
             IF probe.args[2].body = "object" /\ Len(probe.args[2].items) >= 1
             THEN [key \in {probe.args[1][1].key} |->
                      ToBalloonWeather(probe.args[2].items[1].current_weather)]
             ELSE EmptyMap


(***************************************************************************)
(* C28  A batch call that returns an empty result does not end the         *)
(* request: every batch of the missing cells is still sent, in order; the  *)
(* write-back that follows an empty result leaves the cache as it was; and *)
(* the response gives every balloon of a cell resolved by the cache or by  *)
(* another batch that cell's reading.                                      *)
(***************************************************************************)
C28_EmptyBatchNotFatal ==
    /\ [](pc = "done" /\ response.status = 200 =>
            /\ Len(batches) = CeilDiv(Len(missingCells), WEATHER_BATCH_SIZE)
            /\ \A b \in 1..Len(batches) :
                  batches[b] = Slice(missingCells, (b - 1) * WEATHER_BATCH_SIZE)
            /\ \A n \in 1..Len(cells) : cells[n].key \in DOMAIN cellWeather =>
                  \A id \in IdsOf(cells[n]) :
                     WeatherOf(response, id) = <<cellWeather[cells[n].key]>>)
    /\ [][/\ pc = "batchReturned" /\ batchResult = EmptyMap
               => pc' \in {"pipeline", "fetching", "limiterSleep", "done"}
                  /\ cellWeather' = cellWeather
          /\ pc = "pipeline" /\ batchResult = EmptyMap
               => store' = store /\ expires' = expires
         ]_vars

\* the first batch of two cells came back empty, the second batch was sent
\* and answered, its reading is in the response and alone in the cache
C28_SecondBatchAfterEmptyFirst ==
    /\ pc = "done"
    /\ response.status = 200
    /\ Len(batches) = 2
    /\ \A n \in 1..Len(batches[1]) : batches[1][n].key \notin DOMAIN cellWeather
    /\ batches[2][1].key \in DOMAIN cellWeather
    /\ \A id \in IdsOf(batches[2][1]) : id \in DOMAIN response.latestWeather
    /\ DOMAIN store = {weatherCacheKey(batches[2][1])}


(***************************************************************************)
(* C29  Within one request at most one batch call is in flight: the        *)
(* batches handed to fetchOpenMeteoBatch are one more than the calls that  *)
(* have returned while a call is being attempted, retried or has just      *)
(* returned, and as many otherwise.  A batch is handed over, and the       *)
(* limiter is consulted for it, only when the call before it has returned  *)
(* (all its retries made) and its cache write-back, if there is one, has   *)
(* completed.                                                              *)
(***************************************************************************)
InFlight == pc \in {"fetching", "retrySleep", "stalled", "batchReturned"}

\* no write-back follows a batch call: no cache, or no time to live
NoWriteBack == redis = "unset" \/ ttlSeconds <= 0

\* the positions from which the loop head, with its limiter test, is run
AtLoopHead ==
    \/ pc \in {"snapshots", "mget", "pipeline"}
    \/ pc = "batchReturned" /\ NoWriteBack

C29_OneBatchCallAtATime ==
    /\ [](/\ InFlight => Len(batches) = consumed + 1
          /\ ~InFlight => Len(batches) = consumed)
    /\ [][/\ Len(batches') > Len(batches) =>
               /\ Len(batches') = Len(batches) + 1
               /\ AtLoopHead \/ pc = "limiterSleep"
               /\ pc' = "fetching"
          /\ pc' = "limiterSleep" /\ pc # "limiterSleep" => AtLoopHead
          /\ pc \in {"fetching", "retrySleep"} =>
               /\ i' = i
               /\ requestsInWindow' = requestsInWindow
               /\ windowStart' = windowStart
         ]_vars

\* the second batch is being retried after the first batch's write-back
C29_SecondBatchRetriedAfterWriteBack ==
    /\ pc = "fetching"
    /\ attempt >= 1
    /\ Len(batches) = 2
    /\ consumed = 1
    /\ DOMAIN expires # {}


(***************************************************************************)
(* C30  Two requests served side by side in one process send, between      *)
(* them, no more than MAX_REQUESTS_PER_WINDOW batch calls in a window of   *)
(* WINDOW_MS: counted from the time of any batch call, the calls of both   *)
(* requests in the WINDOW_MS that follow are within the limit.             *)
(***************************************************************************)
Sends == {<<r, k>> : r \in DOMAIN requests, k \in 1..(WEATHER_BATCH_SIZE
                                                      * MAX_REQUESTS_PER_WINDOW + 1)}

SentFrom(t) ==
    {s \in Sends : /\ s[2] <= Len(requests[s[1]].sentAt)
                   /\ requests[s[1]].sentAt[s[2]] >= t
                   /\ requests[s[1]].sentAt[s[2]] < t + WINDOW_MS}

C30_SharedWindowBudget ==
    \A r \in DOMAIN requests : \A k \in 1..Len(requests[r].sentAt) :
        Cardinality(SentFrom(requests[r].sentAt[k])) <= MAX_REQUESTS_PER_WINDOW

====
